---------------------------- MODULE Spec2Model ----------------------------
(***************************************************************************)
(* A model of ox, the training-log analyzer (src/src/ox).                  *)
(*                                                                         *)
(* The module holds several specifications over one set of variables, one  *)
(* per part of the program:                                                *)
(*   SpecShell    the interactive shell of cli.py (load, reload, commands) *)
(*   SpecPlugins  the plugin registries of plugins.py                      *)
(*   SpecArgs     parse_report_args of reports.py                          *)
(*   SpecToken    weight_text_to_quantity of parse.py                      *)
(*   SpecWeights  process_weights of parse.py                              *)
(*   SpecDetails  process_details of parse.py                              *)
(*   SpecNode     process_node of parse.py                                 *)
(*   SpecOx       Movement.to_ox of data.py                                *)
(*   SpecStore    create_db of db.py and the training view                 *)
(*   SpecLog      movement_history and most_recent_session of data.py      *)
(*   SpecBins     the time buckets of reports.py                           *)
(*   SpecReports  volume_over_time, session_matrix and estimated_1rm       *)
(*   SpecMerge    get_all_reports of reports.py                            *)
(*   SpecWalk     the syntax-tree walks of lint.py and lsp.py              *)
(*   SpecCommands the report and generate commands of cli.py               *)
(*   SpecParseFile the loop of parse_file of cli.py                        *)
(*   SpecAround   _register_descriptors around a skipped descriptor        *)
(*   SpecLine     one movement line from its text to the training view     *)
(* Each specification moves its own variables and leaves the others at     *)
(* their idle values.                                                      *)
(*                                                                         *)
(* Text is modelled as a sequence of one-character strings, so that        *)
(* splitting, prefix tests and digit parsing are computed as the code      *)
(* computes them.  Python's None is the string "None" where the other      *)
(* values are strings, and the record NoneQ where they are quantities.     *)
(***************************************************************************)
EXTENDS Integers, Sequences, FiniteSets, TLC

VARIABLES
    \* ---- cli.py: the shell ------------------------------------------------
    sh_pc,          \* "prompt" | "exited" | "crashed" (uncaught exception)
    diskFile,       \* the log file on disk: [version, ok]
    log,            \* the shell's `log`: the file version it was parsed from
    db,             \* the shell's `db`: [conn, open, of]
    nextConn,       \* number of sqlite connections made so far
    lastCmd,        \* the command just handled: [cmd, result, usedLog, usedDb]
    preCmd,         \* log and db as they were when that command started
    \* ---- plugins.py: the registries ---------------------------------------
    REPORT_PLUGINS,     \* name -> descriptor
    GENERATOR_PLUGINS,  \* name -> descriptor
    present,            \* the plugin sources installed right now
    lastOp,             \* the registry operation just run
    lastDescs,          \* the descriptor list given to that operation
    loads,              \* the sources that were present at each load_plugins so far
    \* ---- reports.py: parse_report_args ------------------------------------
    params,         \* the declared params
    arg_tokens,     \* shlex.split(arg_string)
    arg_pc,         \* "call" | "done"
    arg_result,     \* [raised, at, names, parsed]: the exception raised ("" for
                    \* none) with the token index it was raised at and the flags
                    \* its message names, or the dict returned
    \* ---- parse.py ----------------------------------------------------------
    parse_pc,       \* "call" | "done"
    parse_src,      \* what the input text was written from
    parse_in,       \* the input text (weight text, or the details dict)
    parse_out,      \* the call's outcome
    \* ---- data.py, db.py, reports.py: a Log, its store and a query on them --
    store_pc,       \* "idle" | "log" | "store" | "failed"
    training_log,   \* the TrainingLog: its sessions in order
    conn,           \* the sqlite connection: [sessions, movements, sets, rejected]
    answer          \* what the last query on the Log or the store gave

shellVars  == <<sh_pc, diskFile, log, db, nextConn, lastCmd, preCmd>>
pluginVars == <<REPORT_PLUGINS, GENERATOR_PLUGINS, present, lastOp, lastDescs, loads>>
argVars    == <<params, arg_tokens, arg_pc, arg_result>>
parseVars  == <<parse_pc, parse_src, parse_in, parse_out>>
storeVars  == <<store_pc, training_log, conn, answer>>
vars       == <<shellVars, pluginVars, argVars, parseVars, storeVars>>

-----------------------------------------------------------------------------
(* Bounds of the model.                                                    *)

\* how many times the log file is edited on disk
MaxEdits == 2
\* how many sqlite connections a run may open (initial load plus reloads)
MaxConns == 3
\* how many descriptors one register() list holds
MaxDescs == 2
\* how many times load_plugins is called
MaxLoads == 2
\* how many tokens an argument string holds
MaxTokens == 3
\* how many digits the whole part of a written weight has
MaxDigits == 2
\* how many weight tokens one weight text is joined from
MaxWeightTokens == 3
\* how many sets a rep scheme is written for
MaxSets == 3
\* how many item lines a session block has
MaxItems == 2
\* how many sessions a Log holds
MaxSessions == 2
\* how many days apart the two dates of a bucket comparison lie at most
MaxGap == 8
\* how many nodes a syntax tree has
MaxNodes == 5
\* how many flags with a value a typed command has
MaxFlags == 2

-----------------------------------------------------------------------------
(* Idle values: what a specification leaves the other parts at.            *)

NoCmd == [cmd |-> "start", result |-> "ok", usedLog |-> 0, usedDb |-> 0]

ShellIdle ==
    /\ sh_pc = "idle"
    /\ diskFile = [version |-> 0, ok |-> TRUE]
    /\ log = 0
    /\ db = [conn |-> 0, open |-> FALSE, of |-> 0]
    /\ nextConn = 0
    /\ lastCmd = NoCmd
    /\ preCmd = [log |-> 0, db |-> [conn |-> 0, open |-> FALSE, of |-> 0]]

\* an empty dict
EmptyDict == [k \in {} |-> "None"]

PluginsIdle ==
    /\ REPORT_PLUGINS = EmptyDict
    /\ GENERATOR_PLUGINS = EmptyDict
    /\ present = {}
    /\ lastOp = "idle"
    /\ lastDescs = <<>>
    /\ loads = <<>>

ArgsIdle ==
    /\ params = <<>>
    /\ arg_tokens = <<>>
    /\ arg_pc = "idle"
    /\ arg_result = [raised |-> "", at |-> 0, names |-> {}, parsed |-> <<>>]

ParseIdle ==
    /\ parse_pc = "idle"
    /\ parse_src = <<>>
    /\ parse_in = <<>>
    /\ parse_out = <<>>

StoreIdle ==
    /\ store_pc = "idle"
    /\ training_log = <<>>
    /\ conn = <<>>
    /\ answer = <<>>

-----------------------------------------------------------------------------
(* cli.py: the interactive shell.                                          *)
(*                                                                         *)
(* A Log is identified by the version of the file it was parsed from; a    *)
(* store is one sqlite connection: its number, whether it is open, and the *)
(* Log it is the projection of.                                            *)

\* parse_file(file): the Log of the file on disk, or an exception (the file
\* cannot be read or decoded, or a node of it makes process_node raise)
parse_file(file) ==
    IF file.ok THEN [raised |-> FALSE, log |-> file.version]
               ELSE [raised |-> TRUE,  log |-> 0]

\* create_db(log): a new open in-memory connection holding the projection of
\* log, or an exception out of sqlite3 (built: whether it got to the end)
create_db(l, built) ==
    IF built THEN [raised |-> FALSE, conn |-> [conn |-> nextConn + 1, open |-> TRUE, of |-> l]]
             ELSE [raised |-> TRUE,  conn |-> [conn |-> 0, open |-> FALSE, of |-> l]]

\* conn.close()
close(c) == [c EXCEPT !.open = FALSE]

Snapshot == [log |-> log, db |-> db]

\* the shell touches neither the registries' model nor the parsers' variables
ShellFrame == UNCHANGED <<pluginVars, argVars, parseVars, storeVars>>

\* a command that reads `log` only: stats, history EXERCISE
LogCommand(cmd) ==
    /\ sh_pc = "prompt"
    /\ lastCmd' = [cmd |-> cmd, result |-> "ok", usedLog |-> log, usedDb |-> 0]
    /\ preCmd' = Snapshot
    /\ UNCHANGED <<sh_pc, diskFile, log, db, nextConn>>
    /\ ShellFrame

Stats == LogCommand("stats")

History == LogCommand("history")

\* query SQL: show_query catches every exception of conn.execute
Query ==
    /\ sh_pc = "prompt"
    /\ lastCmd' = [cmd |-> "query",
                   result |-> IF db.open THEN "ok" ELSE "sql_error",
                   usedLog |-> 0, usedDb |-> db.conn]
    /\ preCmd' = Snapshot
    /\ UNCHANGED <<sh_pc, diskFile, log, db, nextConn>>
    /\ ShellFrame

\* tables: show_tables catches nothing, and the loop catches only
\* KeyboardInterrupt and EOFError: sqlite3.ProgrammingError ends the shell
Tables ==
    /\ sh_pc = "prompt"
    /\ lastCmd' = [cmd |-> "tables",
                   result |-> IF db.open THEN "ok" ELSE "ProgrammingError",
                   usedLog |-> 0, usedDb |-> db.conn]
    /\ sh_pc' = IF db.open THEN "prompt" ELSE "crashed"
    /\ preCmd' = Snapshot
    /\ UNCHANGED <<diskFile, log, db, nextConn>>
    /\ ShellFrame

\* report NAME ARGS: run_report catches ValueError only; a report that gets to
\* run executes SQL on conn
Report ==
    /\ sh_pc = "prompt"
    /\ \E how \in {"unknown_report", "usage", "value_error", "run"} :
          LET fails == how = "run" /\ ~db.open IN
          /\ lastCmd' = [cmd |-> "report",
                         result |-> IF fails THEN "ProgrammingError"
                                    ELSE IF how = "run" THEN "ok" ELSE how,
                         usedLog |-> 0,
                         usedDb |-> IF how = "run" THEN db.conn ELSE 0]
          /\ sh_pc' = IF fails THEN "crashed" ELSE "prompt"
    /\ preCmd' = Snapshot
    /\ UNCHANGED <<diskFile, log, db, nextConn>>
    /\ ShellFrame

\* reload, cli.py lines 347-358:
\*     log = parse_file(file); db.close(); db = create_db(log)
\* inside try/except Exception
Reload ==
    /\ sh_pc = "prompt"
    /\ nextConn < MaxConns
    /\ \E built \in BOOLEAN :
          LET parsed_ == parse_file(diskFile)
              made    == create_db(parsed_.log, built)
          IN  IF parsed_.raised
                THEN /\ UNCHANGED <<log, db, nextConn>>
                     /\ lastCmd' = [cmd |-> "reload", result |-> "parse_failed",
                                    usedLog |-> 0, usedDb |-> 0]
              ELSE IF made.raised
                THEN /\ log' = parsed_.log
                     /\ db' = close(db)
                     /\ UNCHANGED nextConn
                     /\ lastCmd' = [cmd |-> "reload", result |-> "create_failed",
                                    usedLog |-> 0, usedDb |-> 0]
              ELSE   /\ log' = parsed_.log
                     /\ db' = made.conn
                     /\ nextConn' = nextConn + 1
                     /\ lastCmd' = [cmd |-> "reload", result |-> "ok",
                                    usedLog |-> 0, usedDb |-> 0]
    /\ preCmd' = Snapshot
    /\ UNCHANGED <<sh_pc, diskFile>>
    /\ ShellFrame

\* exit, quit, Ctrl+D: leave the loop, then db.close()
Exit ==
    /\ sh_pc = "prompt"
    /\ sh_pc' = "exited"
    /\ db' = close(db)
    /\ lastCmd' = [cmd |-> "exit", result |-> "ok", usedLog |-> 0, usedDb |-> 0]
    /\ preCmd' = Snapshot
    /\ UNCHANGED <<diskFile, log, nextConn>>
    /\ ShellFrame

\* the user's editor saves the file: a new version, loadable or not
EditFile ==
    /\ sh_pc = "prompt"
    /\ diskFile.version < MaxEdits
    /\ \E ok \in BOOLEAN : diskFile' = [version |-> diskFile.version + 1, ok |-> ok]
    /\ UNCHANGED <<sh_pc, log, db, nextConn, lastCmd, preCmd>>
    /\ ShellFrame

\* cli(file) lines 267-279 went through: the file was parsed and projected
InitShell ==
    /\ sh_pc = "prompt"
    /\ diskFile = [version |-> 0, ok |-> TRUE]
    /\ log = 0
    /\ db = [conn |-> 1, open |-> TRUE, of |-> 0]
    /\ nextConn = 1
    /\ lastCmd = NoCmd
    /\ preCmd = [log |-> 0, db |-> [conn |-> 1, open |-> TRUE, of |-> 0]]
    /\ PluginsIdle /\ ArgsIdle /\ ParseIdle /\ StoreIdle

NextShell ==
    \/ Stats
    \/ History
    \/ Query
    \/ Tables
    \/ Report
    \/ Reload
    \/ Exit
    \/ EditFile

SpecShell == InitShell /\ [][NextShell]_vars

\* C1: when a reload fails at any step (parse_file or create_db), the Log and
\* the store are exactly as they were before the reload: same Log, same
\* connection, still open.
C1_FailedReloadKeepsLogAndStore ==
    (lastCmd.cmd = "reload" /\ lastCmd.result # "ok")
        => (log = preCmd.log /\ db = preCmd.db)

-----------------------------------------------------------------------------
(* plugins.py: the two registries.                                         *)
(*                                                                         *)
(* A descriptor is a dict: a record that has some of the keys type, name,  *)
(* fn, description.  A registry is a dict from name to descriptor.         *)

\* desc.get(key)
Get(desc, key) == IF key \in DOMAIN desc THEN desc[key] ELSE "None"

\* Python's `not v` for v a string or None
Falsy(v) == v = "None" \/ v = ""

\* d[name] = desc
DictSet(d, name, desc) ==
    [k \in DOMAIN d \cup {name} |-> IF k = name THEN desc ELSE d[k]]

Desc(t, n, text) == [type |-> t, name |-> n, fn |-> "fn", description |-> text]

\* the descriptors a plugin's register() may return
Descriptors ==
    { Desc("report", "dup", "first"),
      Desc("report", "dup", "second"),
      Desc("report", "r1", "first"),
      Desc("generator", "dup", "first"),
      Desc("widget", "dup", "first"),
      [name |-> "dup", fn |-> "fn", description |-> "first"],
      [type |-> "report", fn |-> "fn", description |-> "first"],
      [type |-> "report", name |-> "dup", description |-> "second"] }

DescLists == UNION { [1..n -> Descriptors] : n \in 0..MaxDescs }

Registries == [reports |-> REPORT_PLUGINS, generators |-> GENERATOR_PLUGINS]

\* the body of the loop of _register_descriptors, lines 47-65, for a report
\* or generator name already in the registry: overwrite
MutantKeepFirst(regs, desc) ==
    LET plugin_type == Get(desc, "type")
        name        == Get(desc, "name")
    IN  IF Falsy(plugin_type) \/ Falsy(name) \/ "fn" \notin DOMAIN desc
          THEN regs
        ELSE IF plugin_type = "report"
          THEN IF name \in DOMAIN regs.reports THEN regs
               ELSE [regs EXCEPT !.reports = DictSet(@, name, desc)]
        ELSE IF plugin_type = "generator"
          THEN IF name \in DOMAIN regs.generators THEN regs
               ELSE [regs EXCEPT !.generators = DictSet(@, name, desc)]
        ELSE regs

RegisterOne(regs, desc) ==
    LET plugin_type == Get(desc, "type")
        name        == Get(desc, "name")
    IN  IF Falsy(plugin_type) \/ Falsy(name) \/ "fn" \notin DOMAIN desc
          THEN regs
        ELSE IF plugin_type = "report"
          THEN [regs EXCEPT !.reports = DictSet(@, name, desc)]
        ELSE IF plugin_type = "generator"
          THEN [regs EXCEPT !.generators = DictSet(@, name, desc)]
        ELSE regs

\* the loop of _register_descriptors with `break` for `continue` at line 55
RECURSIVE MutantStopAtSkipped(_, _)
MutantStopAtSkipped(regs, descriptors) ==
    IF descriptors = <<>> THEN regs
    ELSE IF RegisterOne(regs, Head(descriptors)) = regs THEN regs
    ELSE MutantStopAtSkipped(RegisterOne(regs, Head(descriptors)), Tail(descriptors))

\* _register_descriptors(descriptors, source): the loop, first to last
RECURSIVE register_descriptors(_, _)
register_descriptors(regs, descriptors) ==
    IF descriptors = <<>> THEN regs
    ELSE register_descriptors(RegisterOne(regs, Head(descriptors)), Tail(descriptors))

PluginsFrame == UNCHANGED <<shellVars, argVars, parseVars, storeVars>>

\* a call of _register_descriptors, as a plugin loader or a test makes it
RegisterDescriptors ==
    /\ \E descriptors \in DescLists :
          LET after == register_descriptors(Registries, descriptors) IN
          /\ REPORT_PLUGINS' = after.reports
          /\ GENERATOR_PLUGINS' = after.generators
          /\ lastDescs' = descriptors
    /\ lastOp' = "register"
    /\ UNCHANGED <<present, loads>>
    /\ PluginsFrame

\* plugins.py lines 25-26: both registries empty when the module is imported
InitRegister ==
    /\ REPORT_PLUGINS = EmptyDict
    /\ GENERATOR_PLUGINS = EmptyDict
    /\ present = {}
    /\ lastOp = "import"
    /\ lastDescs = <<>>
    /\ loads = <<>>
    /\ ShellIdle /\ ArgsIdle /\ ParseIdle /\ StoreIdle

NextRegister == RegisterDescriptors

SpecRegister == InitRegister /\ [][NextRegister]_vars

\* a descriptor that _register_descriptors accepts into registry t
Valid(desc, t) ==
    /\ {"type", "name", "fn"} \subseteq DOMAIN desc
    /\ desc.type = t
    /\ desc.name # ""

\* the places of list ds that hold a valid descriptor of type t named n
Places(ds, t, n) == { i \in 1..Len(ds) : Valid(ds[i], t) /\ ds[i].name = n }

Max(S) == CHOOSE x \in S : \A y \in S : y <= x

RegNames == { Get(d, "name") : d \in Descriptors }

\* what a call that was given ds must make of registry `before`
Overwritten(before, after, ds, t) ==
    \A n \in RegNames :
        IF Places(ds, t, n) # {}
          THEN n \in DOMAIN after /\ after[n] = ds[Max(Places(ds, t, n))]
          ELSE /\ (n \in DOMAIN after) = (n \in DOMAIN before)
               /\ n \in DOMAIN after => after[n] = before[n]

\* C2: after _register_descriptors, a name that the list registers (once or
\* several times, or that an earlier call registered) holds the entry of the
\* last valid descriptor of that type and name in the list; every other name
\* of the registry is as it was.
C2_LastRegistrationWins ==
    [][ lastOp' = "register" =>
          /\ Overwritten(REPORT_PLUGINS, REPORT_PLUGINS', lastDescs', "report")
          /\ Overwritten(GENERATOR_PLUGINS, GENERATOR_PLUGINS', lastDescs', "generator")
      ]_vars

\* a call whose list names "dup" twice as a report, with different
\* descriptors, while "r1" was registered by an earlier call
C2_Witness ==
    /\ lastOp = "register"
    /\ Len(lastDescs) = 2
    /\ Valid(lastDescs[1], "report") /\ Valid(lastDescs[2], "report")
    /\ lastDescs[1].name = "dup" /\ lastDescs[2].name = "dup"
    /\ lastDescs[1] # lastDescs[2]
    /\ REPORT_PLUGINS["dup"] = lastDescs[2]
    /\ "r1" \in DOMAIN REPORT_PLUGINS

-----------------------------------------------------------------------------
(* plugins.py: discovery.  The plugin sources are the *.py files of        *)
(* ~/.ox/plugins, loaded in sorted path order, then the entry points of    *)
(* the group ox.plugins.                                                   *)

\* the *.py files that may lie in PLUGIN_DIR, in sorted order; register is
\* what module.register() does: "ok" returns the descriptors, "raises" raises
PluginFiles ==
    << [path |-> "a.py", register |-> "ok",
        descriptors |-> << Desc("report", "dup", "first"),
                           Desc("generator", "dup", "first") >>],
       [path |-> "b.py", register |-> "ok",
        descriptors |-> << Desc("report", "dup", "second"),
                           [type |-> "report", name |-> "r1", description |-> "first"] >>],
       [path |-> "c.py", register |-> "raises",
        descriptors |-> << Desc("report", "r1", "first") >>] >>

\* the entry points that may be installed
EntryPoints ==
    << [path |-> "ep1", register |-> "ok",
        descriptors |-> << Desc("report", "r1", "first") >>] >>

SourcePaths ==
    { PluginFiles[i].path : i \in DOMAIN PluginFiles }
        \cup { EntryPoints[i].path : i \in DOMAIN EntryPoints }

\* the loop of _load_from_directory / _load_from_entry_points over `sources`,
\* of which those in `here` exist: a register() that raises is logged and
\* skipped
RECURSIVE load_from(_, _, _)
load_from(regs, sources, here) ==
    IF sources = <<>> THEN regs
    ELSE LET src == Head(sources)
             next == IF src.path \in here /\ src.register = "ok"
                       THEN register_descriptors(regs, src.descriptors)
                       ELSE regs
         IN  load_from(next, Tail(sources), here)

\* load_plugins without the two clear() calls
MutantNoClear(regs, here) ==
    load_from(load_from(regs, PluginFiles, here), EntryPoints, here)

\* load_plugins, lines 94-99
load_plugins(regs, here) ==
    LET cleared == [reports |-> EmptyDict, generators |-> EmptyDict]
    IN  load_from(load_from(cleared, PluginFiles, here), EntryPoints, here)

LoadPlugins ==
    /\ Len(loads) < MaxLoads
    /\ LET after == load_plugins(Registries, present) IN
          /\ REPORT_PLUGINS' = after.reports
          /\ GENERATOR_PLUGINS' = after.generators
    /\ lastOp' = "load"
    /\ loads' = Append(loads, present)
    /\ UNCHANGED <<present, lastDescs>>
    /\ PluginsFrame

\* the user adds a plugin file or installs a package with an entry point
InstallPlugin ==
    /\ \E path \in SourcePaths \ present : present' = present \cup {path}
    /\ lastOp' = "install"
    /\ UNCHANGED <<REPORT_PLUGINS, GENERATOR_PLUGINS, lastDescs, loads>>
    /\ PluginsFrame

\* the user deletes a plugin file or uninstalls a package
RemovePlugin ==
    /\ \E path \in present : present' = present \ {path}
    /\ lastOp' = "remove"
    /\ UNCHANGED <<REPORT_PLUGINS, GENERATOR_PLUGINS, lastDescs, loads>>
    /\ PluginsFrame

InitPlugins ==
    /\ REPORT_PLUGINS = EmptyDict
    /\ GENERATOR_PLUGINS = EmptyDict
    /\ present \in SUBSET SourcePaths
    /\ lastOp = "import"
    /\ lastDescs = <<>>
    /\ loads = <<>>
    /\ ShellIdle /\ ArgsIdle /\ ParseIdle /\ StoreIdle

NextPlugins ==
    \/ LoadPlugins
    \/ InstallPlugin
    \/ RemovePlugin

SpecPlugins == InitPlugins /\ [][NextPlugins]_vars

\* the descriptors that the sources of `here` hand over, in load order
RECURSIVE Handed(_, _)
Handed(sources, here) ==
    IF sources = <<>> THEN <<>>
    ELSE (IF Head(sources).path \in here /\ Head(sources).register = "ok"
            THEN Head(sources).descriptors ELSE <<>>)
         \o Handed(Tail(sources), here)

\* the registry of type t that holds exactly what the sources of `here` register
Exactly(reg, t, here) ==
    LET ds == Handed(PluginFiles \o EntryPoints, here) IN
    /\ DOMAIN reg = { n \in RegNames : Places(ds, t, n) # {} }
    /\ \A n \in DOMAIN reg : reg[n] = ds[Max(Places(ds, t, n))]

\* C3: after load_plugins returns, each registry holds exactly the descriptors
\* registered by the sources present at that call (nothing of an earlier load
\* lingers), and a second load_plugins with unchanged sources changes nothing.
C3_LoadRebuildsRegistries ==
    /\ [](lastOp = "load" =>
            /\ Exactly(REPORT_PLUGINS, "report", present)
            /\ Exactly(GENERATOR_PLUGINS, "generator", present))
    /\ [][ (lastOp = "load" /\ lastOp' = "load") =>
             UNCHANGED <<REPORT_PLUGINS, GENERATOR_PLUGINS>> ]_vars

\* a second load, after a.py (which registered report dup and generator dup)
\* was removed: its entries are gone and ep1's entry is there
C3_Witness ==
    /\ lastOp = "load"
    /\ Len(loads) = 2
    /\ "a.py" \in loads[1] /\ "b.py" \notin loads[1]
    /\ present = {"ep1"}
    /\ DOMAIN REPORT_PLUGINS = {"r1"}
    /\ DOMAIN GENERATOR_PLUGINS = {}

-----------------------------------------------------------------------------
(* Text helpers.                                                           *)

StartsWith(text, prefix) ==
    /\ Len(text) >= Len(prefix)
    /\ SubSeq(text, 1, Len(prefix)) = prefix

Digit == {"0", "1", "2", "3", "4", "5", "6", "7", "8", "9"}

DigitValue(c) ==
    CASE c = "0" -> 0 [] c = "1" -> 1 [] c = "2" -> 2 [] c = "3" -> 3 [] c = "4" -> 4
      [] c = "5" -> 5 [] c = "6" -> 6 [] c = "7" -> 7 [] c = "8" -> 8 [] c = "9" -> 9

AllDigits(text) == text # <<>> /\ \A i \in 1..Len(text) : text[i] \in Digit

\* the value of a string of decimal digits
RECURSIVE DigitsToNat(_)
DigitsToNat(text) ==
    IF text = <<>> THEN 0
    ELSE 10 * DigitsToNat(SubSeq(text, 1, Len(text) - 1)) + DigitValue(text[Len(text)])

-----------------------------------------------------------------------------
(* reports.py: parse_report_args(params, arg_string).                      *)
(*                                                                         *)
(* arg_tokens is shlex.split(arg_string), [] for a blank string.  A param  *)
(* is a dict with the keys name and type and some of required, default,    *)
(* short.  A value is [str |-> text], [int |-> n] or NoneValue.            *)

NoneValue == [none |-> TRUE]

mov == <<"m", "o", "v">>
num == <<"n", "u", "m">>

\* the param declarations a report may make
ParamChoices ==
    { [name |-> mov, type |-> "str", required |-> TRUE, short |-> <<"m">>],
      [name |-> mov, type |-> "str", required |-> TRUE],
      [name |-> mov, type |-> "str", default |-> [str |-> <<"s", "q">>], short |-> <<"m">>],
      [name |-> mov, type |-> "str", required |-> FALSE],
      [name |-> num, type |-> "int", required |-> TRUE, short |-> <<"n">>],
      [name |-> num, type |-> "int", required |-> FALSE, default |-> [int |-> 5],
       short |-> <<"n">>] }

\* the declared lists: no name twice
ParamLists ==
    { <<>> } \cup { <<p>> : p \in ParamChoices }
       \cup { pq \in { <<p, q>> : p \in ParamChoices, q \in ParamChoices } :
                  pq[1].name # pq[2].name }

Tokens ==
    { <<"-", "-", "m", "o", "v">>, <<"-", "m">>,
      <<"-", "-", "n", "u", "m">>, <<"-", "n">>,
      <<"-", "-", "f", "o", "o">>, <<"-", "5">>,
      <<"-", "m", "v">>, <<"s", "q">>, <<"5">> }

TokenLists == UNION { [1..n -> Tokens] : n \in 0..MaxTokens }

\* p.get("required", False)
Required(p) == "required" \in DOMAIN p /\ p.required

\* p.get("default")
Default(p) == IF "default" \in DOMAIN p THEN p.default ELSE NoneValue

\* next((p for p in params if p["name"] == key), None): 0 for None
RECURSIVE FirstByName(_, _, _)
FirstByName(ps, key, k) ==
    IF k > Len(ps) THEN 0
    ELSE IF ps[k].name = key THEN k
    ELSE FirstByName(ps, key, k + 1)

\* next((p for p in params if p.get("short") == key), None): 0 for None
RECURSIVE FirstByShort(_, _, _)
FirstByShort(ps, key, k) ==
    IF k > Len(ps) THEN 0
    ELSE IF "short" \in DOMAIN ps[k] /\ ps[k].short = key THEN k
    ELSE FirstByShort(ps, key, k + 1)

\* param["type"](token) for the types str and int; int takes an optional
\* sign and decimal digits, and raises ValueError on anything else
Coerce(type, token) ==
    IF type = "str" THEN [raised |-> FALSE, value |-> [str |-> token]]
    ELSE IF AllDigits(token)
      THEN [raised |-> FALSE, value |-> [int |-> DigitsToNat(token)]]
    ELSE IF Len(token) > 1 /\ token[1] \in {"-", "+"} /\ AllDigits(Tail(token))
      THEN [raised |-> FALSE,
            value |-> [int |-> IF token[1] = "-" THEN 0 - DigitsToNat(Tail(token))
                                                 ELSE DigitsToNat(Tail(token))]]
    ELSE [raised |-> TRUE, value |-> NoneValue]

Raise(kind, i, names) ==
    [raised |-> kind, at |-> i, names |-> names, parsed |-> EmptyDict]

\* the flag as the error messages write it
Long(name) == <<"-", "-">> \o name

\* lines 201-211 with every unsupplied param set to None
RECURSIVE MutantNoDefault(_, _, _)
MutantNoDefault(ps, parsed, k) ==
    IF k > Len(ps) THEN [raised |-> "", at |-> 0, names |-> {}, parsed |-> parsed]
    ELSE LET name == ps[k].name IN
         IF name \in DOMAIN parsed THEN MutantNoDefault(ps, parsed, k + 1)
         ELSE IF Required(ps[k])
           THEN Raise("MissingRequired", 0,
                      { Long(ps[j].name) : j \in { j \in 1..Len(ps) : Required(ps[j]) } })
         ELSE MutantNoDefault(ps, DictSet(parsed, name, NoneValue), k + 1)

\* lines 200-213: apply defaults and check required, param k onwards
RECURSIVE ApplyDefaults(_, _, _)
ApplyDefaults(ps, parsed, k) ==
    IF k > Len(ps) THEN [raised |-> "", at |-> 0, names |-> {}, parsed |-> parsed]
    ELSE LET name == ps[k].name IN
         IF name \in DOMAIN parsed THEN ApplyDefaults(ps, parsed, k + 1)
         ELSE IF Required(ps[k])
           THEN Raise("MissingRequired", 0,
                      { Long(ps[j].name) : j \in { j \in 1..Len(ps) : Required(ps[j]) } })
         ELSE ApplyDefaults(ps, DictSet(parsed, name, Default(ps[k])), k + 1)

\* lines 179-198 with the value check made before the flag is looked up
RECURSIVE MutantValueFirst(_, _, _, _)
MutantValueFirst(ps, tokens, i, parsed) ==
    IF i > Len(tokens) THEN ApplyDefaults(ps, parsed, 1)
    ELSE LET token  == tokens[i]
             isLong == StartsWith(token, <<"-", "-">>)
             isShort == ~isLong /\ StartsWith(token, <<"-">>) /\ Len(token) = 2
             key    == IF isLong THEN SubSeq(token, 3, Len(token)) ELSE Tail(token)
             k      == IF isLong THEN FirstByName(ps, key, 1) ELSE FirstByShort(ps, key, 1)
             flag   == IF isLong THEN Long(key) ELSE <<"-">> \o key
         IN  IF ~isLong /\ ~isShort THEN Raise("UnexpectedArgument", i, {token})
             ELSE IF i + 1 > Len(tokens) THEN Raise("MissingFlagValue", i, {flag})
             ELSE IF k = 0 THEN Raise("UnknownFlag", i, {flag})
             ELSE LET c == Coerce(ps[k].type, tokens[i + 1]) IN
                  IF c.raised THEN Raise("ValueError", i, {})
                  ELSE MutantValueFirst(ps, tokens, i + 2, DictSet(parsed, ps[k].name, c.value))

\* lines 179-198: the while loop from token i on
RECURSIVE ParseLoop(_, _, _, _)
ParseLoop(ps, tokens, i, parsed) ==
    IF i > Len(tokens) THEN ApplyDefaults(ps, parsed, 1)
    ELSE LET token  == tokens[i]
             isLong == StartsWith(token, <<"-", "-">>)
             isShort == ~isLong /\ StartsWith(token, <<"-">>) /\ Len(token) = 2
             key    == IF isLong THEN SubSeq(token, 3, Len(token)) ELSE Tail(token)
             k      == IF isLong THEN FirstByName(ps, key, 1) ELSE FirstByShort(ps, key, 1)
             flag   == IF isLong THEN Long(key) ELSE <<"-">> \o key
         IN  IF ~isLong /\ ~isShort THEN Raise("UnexpectedArgument", i, {token})
             ELSE IF k = 0 THEN Raise("UnknownFlag", i, {flag})
             ELSE IF i + 1 > Len(tokens) THEN Raise("MissingFlagValue", i, {flag})
             ELSE LET c == Coerce(ps[k].type, tokens[i + 1]) IN
                  IF c.raised THEN Raise("ValueError", i, {})
                  ELSE ParseLoop(ps, tokens, i + 2, DictSet(parsed, ps[k].name, c.value))

parse_report_args(ps, tokens) == ParseLoop(ps, tokens, 1, EmptyDict)

ArgsFrame == UNCHANGED <<shellVars, pluginVars, parseVars, storeVars>>

ParseReportArgs ==
    /\ arg_pc = "call"
    /\ arg_result' = parse_report_args(params, arg_tokens)
    /\ arg_pc' = "done"
    /\ UNCHANGED <<params, arg_tokens>>
    /\ ArgsFrame

InitArgs ==
    /\ params \in ParamLists
    /\ arg_tokens \in TokenLists
    /\ arg_pc = "call"
    /\ arg_result = [raised |-> "", at |-> 0, names |-> {}, parsed |-> EmptyDict]
    /\ ShellIdle /\ PluginsIdle /\ ParseIdle /\ StoreIdle

NextArgs == ParseReportArgs

SpecArgs == InitArgs /\ [][NextArgs]_vars

\* ---- what the claims say, stated on the tokens ----------------------------

IsLongFlag(token) == StartsWith(token, <<"-", "-">>)

IsShortFlag(token) == ~IsLongFlag(token) /\ Len(token) = 2 /\ token[1] = "-"

\* token is the long name or the short alias of param p
Supplies(token, p) ==
    \/ IsLongFlag(token) /\ token = Long(p.name)
    \/ IsShortFlag(token) /\ "short" \in DOMAIN p /\ token = <<"-">> \o p.short

\* the flag positions of a token list read as flag/value pairs
FlagPositions(tokens) == { i \in 1..Len(tokens) : i % 2 = 1 }

\* what is wrong with the pair at flag position i, "" for nothing
Offence(ps, tokens, i) ==
    LET token == tokens[i]
        ks    == { k \in 1..Len(ps) : Supplies(token, ps[k]) }
    IN  IF ~IsLongFlag(token) /\ ~IsShortFlag(token) THEN "UnexpectedArgument"
        ELSE IF ks = {} THEN "UnknownFlag"
        ELSE IF i = Len(tokens) THEN "MissingFlagValue"
        ELSE IF \E k \in ks : Coerce(ps[k].type, tokens[i + 1]).raised THEN "ValueError"
        ELSE ""

Offending(ps, tokens) == { i \in FlagPositions(tokens) : Offence(ps, tokens, i) # "" }

Min(S) == CHOOSE x \in S : \A y \in S : x <= y

\* the flag positions that supply param p
SuppliedAt(p, tokens) == { i \in FlagPositions(tokens) : Supplies(tokens[i], p) }

\* C4: on success the returned dict has exactly the declared names as keys; a
\* param supplied by long name or short alias maps to its type applied to the
\* token after the flag (the last such flag when it is given twice), and an
\* optional param not supplied maps to its default.
C4_SuccessMapsEveryDeclaredParam ==
    (arg_pc = "done" /\ arg_result.raised = "") =>
        /\ DOMAIN arg_result.parsed = { params[k].name : k \in 1..Len(params) }
        /\ \A k \in 1..Len(params) :
              LET p  == params[k]
                  at == SuppliedAt(p, arg_tokens)
              IN  IF at # {}
                    THEN arg_result.parsed[p.name]
                            = Coerce(p.type, arg_tokens[Max(at) + 1]).value
                    ELSE arg_result.parsed[p.name] = Default(p)

\* "-m sq" against [mov with alias m, num optional with default 5]
C4_Witness ==
    /\ arg_pc = "done" /\ arg_result.raised = ""
    /\ arg_tokens = << <<"-", "m">>, <<"s", "q">> >>
    /\ Len(params) = 2
    /\ params[2].name = num
    /\ arg_result.parsed[mov] = [str |-> <<"s", "q">>]
    /\ arg_result.parsed[num] = [int |-> 5]

\* C5: the tokens are read left to right as flag/value pairs and the call
\* fails at the first offending pair with no dict returned: a token in flag
\* position that is no --name and no two-character -x raises
\* UnexpectedArgument, else a flag that matches no declared param raises
\* UnknownFlag, else a flag with no token after it raises MissingFlagValue.
C5_FailsAtFirstOffendingPair ==
    arg_pc = "done" =>
        LET bad == Offending(params, arg_tokens) IN
        IF bad # {}
          THEN /\ arg_result.raised = Offence(params, arg_tokens, Min(bad))
               /\ arg_result.at = Min(bad)
               /\ arg_result.parsed = EmptyDict
          ELSE arg_result.raised \in {"", "MissingRequired"}

\* a good pair, then a declared flag with nothing after it
C5_Witness ==
    /\ arg_pc = "done"
    /\ Len(arg_tokens) = 3
    /\ arg_result.raised = "MissingFlagValue"
    /\ arg_result.at = 3

\* the required params that no flag supplies
MissingRequired(ps, tokens) ==
    { k \in 1..Len(ps) : Required(ps[k]) /\ SuppliedAt(ps[k], tokens) = {} }

\* C6: when every pair was consumed and a required param was not supplied, the
\* call raises MissingRequired and the error names exactly the required flags
\* that are missing.
C6_MissingRequiredNamesTheMissing ==
    (/\ arg_pc = "done"
     /\ Offending(params, arg_tokens) = {}
     /\ MissingRequired(params, arg_tokens) # {}) =>
        /\ arg_result.raised = "MissingRequired"
        /\ arg_result.names
              = { Long(params[k].name) : k \in MissingRequired(params, arg_tokens) }

-----------------------------------------------------------------------------
(* parse.py: weights.                                                      *)
(*                                                                         *)
(* A pint Quantity of mass is [units, kilogram, pound]: the quantity whose *)
(* value, written in `units`, is `kilogram` kilograms plus `pound` pounds. *)
(* A quantity made from one text has one of the two parts only, and that   *)
(* part is its magnitude; a sum of a kilogram and a pound quantity keeps   *)
(* both parts, so no rounding of the conversion factor enters the model.   *)
(* None is NoneQ.                                                          *)

NoneQ == [none |-> TRUE]

Quantity(magnitude, units) ==
    [units    |-> units,
     kilogram |-> IF units = "kilogram" THEN magnitude ELSE 0,
     pound    |-> IF units = "pound" THEN magnitude ELSE 0]

\* q.magnitude of a quantity made from one text
Magnitude(q) ==
    IF q.units = "kilogram" THEN q.kilogram
    ELSE IF q.units = "pound" THEN q.pound
    ELSE q.magnitude

\* a quantity in a unit that is neither of the two, as Q_(magnitude, units) makes it
QuantityIn(magnitude, units) ==
    [units |-> units, kilogram |-> 0, pound |-> 0, magnitude |-> magnitude]

\* a + b of pint: the sum, in the units of a
QuantityAdd(a, b) ==
    [units |-> a.units, kilogram |-> a.kilogram + b.kilogram, pound |-> a.pound + b.pound]

Letter ==
    {"a", "b", "c", "d", "e", "f", "g", "h", "i", "j", "k", "l", "m", "n", "o", "p", "q",
     "r", "s", "t", "u", "v", "w", "x", "y", "z",
     "A", "B", "C", "D", "E", "F", "G", "H", "I", "J", "K", "L", "M", "N", "O", "P", "Q",
     "R", "S", "T", "U", "V", "W", "X", "Y", "Z"}

\* the class \w of re
WordChar == Letter \cup Digit \cup {"_"}

\* the length of the longest prefix of text made of digits
RECURSIVE DigitRun(_)
DigitRun(text) ==
    IF text = <<>> \/ text[1] \notin Digit THEN 0 ELSE 1 + DigitRun(Tail(text))

\* re.match(r"^(\d+)(\w+)$|'BW'", weight_text): matched, and groups 1 and 2
\* (<<>> for a group that took no part).  \d+ is greedy and gives back one
\* digit when nothing else is left for \w+.
WeightMatch(text) ==
    LET run == DigitRun(text)
        g1  == IF run = Len(text) THEN run - 1 ELSE run
    IN  IF /\ Len(text) >= 2
           /\ g1 >= 1
           /\ \A i \in 1..Len(text) : text[i] \in WordChar
          THEN [matched |-> TRUE,
                group1 |-> SubSeq(text, 1, g1),
                group2 |-> SubSeq(text, g1 + 1, Len(text))]
        ELSE IF StartsWith(text, <<"'", "B", "W", "'">>)
          THEN [matched |-> TRUE, group1 |-> <<>>, group2 |-> <<>>]
        ELSE [matched |-> FALSE, group1 |-> <<>>, group2 |-> <<>>]

\* weight_text_to_quantity, lines 47-58
weight_text_to_quantity(weight_text) ==
    LET match == WeightMatch(weight_text) IN
    IF match.matched
      THEN IF match.group2 = <<"k", "g">>
             THEN Quantity(DigitsToNat(match.group1), "kilogram")
           ELSE IF match.group2 = <<"l", "b", "s">>
             THEN Quantity(DigitsToNat(match.group1), "pound")
           ELSE NoneQ
      ELSE NoneQ

ParseFrame == UNCHANGED <<shellVars, pluginVars, argVars, storeVars>>

\* ---- the texts a weight token is written as --------------------------------

DigitsUsed == {"0", "2", "5"}

\* whole numbers of up to MaxDigits digits
WholeTexts == UNION { [1..n -> DigitsUsed] : n \in 1..MaxDigits }

\* decimals: a whole part, a point, one digit
DecimalTexts == { w \o <<".", d>> : w \in WholeTexts, d \in DigitsUsed }

\* the unit-alias table of the weight grammar: written unit -> canonical unit
UnitAlias ==
    [u \in { <<"k", "g">>, <<"k", "i", "l", "o", "g", "r", "a", "m">>,
             <<"l", "b">>, <<"l", "b", "s">>, <<"p", "o", "u", "n", "d">>,
             <<"g">>, <<"o", "z">>, <<"s", "t", "o", "n", "e">> } |->
        CASE u = <<"k", "g">> -> "kilogram"
          [] u = <<"k", "i", "l", "o", "g", "r", "a", "m">> -> "kilogram"
          [] u = <<"l", "b">> -> "pound"
          [] u = <<"l", "b", "s">> -> "pound"
          [] u = <<"p", "o", "u", "n", "d">> -> "pound"
          [] u = <<"g">> -> "gram"
          [] u = <<"o", "z">> -> "ounce"
          [] u = <<"s", "t", "o", "n", "e">> -> "stone"]

\* what may follow the number: a mass unit, a unit that is no mass, nothing
UnitTexts == DOMAIN UnitAlias \cup { <<"m">>, <<"m", "i", "n">>, <<>> }

\* texts that are no number and unit
OtherTexts == { <<"B", "W">>, <<"'", "B", "W", "'">>, <<"a", "b", "c">>, <<"k", "g">> }

TokenSources ==
    { [kind |-> "token", number |-> n, unit |-> u] :
          n \in WholeTexts \cup DecimalTexts, u \in UnitTexts }
       \cup { [kind |-> "other", number |-> t, unit |-> <<>>] : t \in OtherTexts }

TokenText(src) == src.number \o src.unit

WeightTextToQuantity ==
    /\ parse_pc = "call"
    /\ parse_out' = weight_text_to_quantity(parse_in)
    /\ parse_pc' = "done"
    /\ UNCHANGED <<parse_src, parse_in>>
    /\ ParseFrame

InitToken ==
    /\ parse_src \in TokenSources
    /\ parse_in = TokenText(parse_src)
    /\ parse_pc = "call"
    /\ parse_out = NoneQ
    /\ ShellIdle /\ PluginsIdle /\ ArgsIdle /\ StoreIdle

NextToken == WeightTextToQuantity

SpecToken == InitToken /\ [][NextToken]_vars

\* the value of a written number as numerator and denominator
NumberValue(text) ==
    IF AllDigits(text) THEN [n |-> DigitsToNat(text), d |-> 1]
    ELSE [n |-> 10 * DigitsToNat(SubSeq(text, 1, Len(text) - 2))
                  + DigitValue(text[Len(text)]),
          d |-> 10]

\* C9: a <number><unit> text whose number is an integer or a decimal and
\* whose unit is in the alias table gives the quantity of that magnitude in
\* the canonical unit; BW and every other text give None.
C9_TokenParsesToQuantity ==
    parse_pc = "done" =>
        IF parse_src.kind = "token" /\ parse_src.unit \in DOMAIN UnitAlias
          THEN /\ parse_out # NoneQ
               /\ parse_out.units = UnitAlias[parse_src.unit]
               /\ Magnitude(parse_out) * NumberValue(parse_src.number).d
                     = NumberValue(parse_src.number).n
          ELSE parse_out = NoneQ

-----------------------------------------------------------------------------
(* parse.py: process_weights.                                              *)

\* the index of the first c in text, 0 when there is none
RECURSIVE IndexOf(_, _, _)
IndexOf(text, c, i) ==
    IF i > Len(text) THEN 0
    ELSE IF text[i] = c THEN i
    ELSE IndexOf(text, c, i + 1)

\* c in text
Contains(text, c) == IndexOf(text, c, 1) # 0

\* text.split(sep) for a one-character sep: at least one piece, empty pieces kept
RECURSIVE Split(_, _)
Split(text, sep) ==
    LET i == IndexOf(text, sep, 1) IN
    IF i = 0 THEN <<text>>
    ELSE <<SubSeq(text, 1, i - 1)>> \o Split(SubSeq(text, i + 1, Len(text)), sep)

\* [weight_text_to_quantity(i) for i in pieces]
RECURSIVE MapToQuantity(_)
MapToQuantity(pieces) ==
    IF pieces = <<>> THEN <<>>
    ELSE <<weight_text_to_quantity(Head(pieces))>> \o MapToQuantity(Tail(pieces))

\* sum(qs): 0 + qs[1] + qs[2] + ...; acc = NoneQ stands for the int 0, which
\* pint adds to a Quantity; adding None raises TypeError
RECURSIVE SumFrom(_, _)
SumFrom(acc, qs) ==
    IF qs = <<>> THEN [raised |-> "", value |-> acc]
    ELSE IF Head(qs) = NoneQ THEN [raised |-> "TypeError", value |-> NoneQ]
    ELSE SumFrom(IF acc = NoneQ THEN Head(qs) ELSE QuantityAdd(acc, Head(qs)), Tail(qs))

\* the loop of process_weights, lines 68-74, over the slices left
RECURSIVE WeightLoop(_, _)
WeightLoop(slices, weight_objs) ==
    IF slices = <<>> THEN [raised |-> "", result |-> weight_objs]
    ELSE LET w == Head(slices) IN
         IF Contains(w, "+")
           THEN LET total == SumFrom(NoneQ, MapToQuantity(Split(w, "+"))) IN
                IF total.raised # "" THEN [raised |-> total.raised, result |-> <<>>]
                ELSE WeightLoop(Tail(slices), Append(weight_objs, total.value))
           ELSE WeightLoop(Tail(slices), Append(weight_objs, weight_text_to_quantity(w)))

\* process_weights, lines 61-76
process_weights(weight_str) == WeightLoop(Split(weight_str, "/"), <<>>)

\* ---- the weight texts ------------------------------------------------------

\* a weight text is written from tokens and the separators between them
WeightSourcesOver(tokens, most) ==
    UNION { { [tokens |-> ts, seps |-> ss] :
                ts \in [1..n -> tokens], ss \in [1..(n - 1) -> {"+", "/"}] } :
            n \in 1..most }

RECURSIVE WeightText(_)
WeightText(src) ==
    IF Len(src.tokens) = 1 THEN src.tokens[1]
    ELSE src.tokens[1] \o <<src.seps[1]>>
            \o WeightText([tokens |-> Tail(src.tokens), seps |-> Tail(src.seps)])

WeightTokens ==
    { <<"1", "6", "0">>, <<"1", "8", "5">>, <<"2", "1", "0", "l", "b">>,
      <<"2", "4", "k", "g">>, <<"3", "2", "k", "g">>, <<"5", "l", "b", "s">>,
      <<"B", "W">> }

ProcessWeights ==
    /\ parse_pc = "call"
    /\ parse_out' = process_weights(parse_in)
    /\ parse_pc' = "done"
    /\ UNCHANGED <<parse_src, parse_in>>
    /\ ParseFrame

InitWeights ==
    /\ parse_src \in WeightSourcesOver(WeightTokens, MaxWeightTokens)
    /\ parse_in = WeightText(parse_src)
    /\ parse_pc = "call"
    /\ parse_out = [raised |-> "", result |-> <<>>]
    /\ ShellIdle /\ PluginsIdle /\ ArgsIdle /\ StoreIdle

NextWeights == ProcessWeights

SpecWeights == InitWeights /\ [][NextWeights]_vars

\* the slices a weight text was written from: the tokens between two "/"
RECURSIVE SlicesOf(_)
SlicesOf(src) ==
    IF Len(src.tokens) = 1 THEN << <<src.tokens[1]>> >>
    ELSE LET rest == SlicesOf([tokens |-> Tail(src.tokens), seps |-> Tail(src.seps)]) IN
         IF src.seps[1] = "/" THEN << <<src.tokens[1]>> >> \o rest
         ELSE << <<src.tokens[1]>> \o Head(rest) >> \o Tail(rest)

\* C10: process_weights returns one result per "/"-separated slice, in slice
\* order, and the result of a slice is what the slice gives when it is the
\* whole text (nothing is taken from a neighbouring slice); 160/185/210lb
\* gives three parse failures.
C10_OneResultPerSlice ==
    parse_pc = "done" =>
        LET slices == SlicesOf(parse_src) IN
        /\ parse_out.raised = ""
        /\ Len(parse_out.result) = Len(slices)
        /\ \A i \in 1..Len(slices) :
              LET alone == process_weights(
                     WeightText([tokens |-> slices[i],
                                 seps |-> [j \in 1..(Len(slices[i]) - 1) |-> "+"]]))
              IN  alone.raised = "" /\ parse_out.result[i] = alone.result[1]
        /\ parse_in = <<"1", "6", "0", "/", "1", "8", "5", "/", "2", "1", "0", "l", "b">>
              => parse_out.result = <<NoneQ, NoneQ, NoneQ>>

-----------------------------------------------------------------------------
(* parse.py: process_details(details).                                     *)
(*                                                                         *)
(* details maps some of the keys weight, rep_scheme and note to the text   *)
(* of that field of a movement line.  parse_out records whether the call   *)
(* raised, the locals reps and weights as they stood when it returned or   *)
(* raised, and the returned sets and note.                                 *)

\* a local that is None or a list
NoneList == [present |-> FALSE, items |-> <<>>]
SomeList(items) == [present |-> TRUE, items |-> items]

\* a note that is None or a text
NoneText == [present |-> FALSE, text |-> <<>>]
SomeText(text) == [present |-> TRUE, text |-> text]

TrainingSet(reps, weight) == [reps |-> reps, weight |-> weight]

\* get_or_last(lst, i), lines 11-13, for the position i counted from 1
get_or_last(lst, i) == lst[IF i <= Len(lst) THEN i ELSE Len(lst)]

\* [int(r) for r in pieces]
RECURSIVE IntList(_)
IntList(pieces) ==
    IF pieces = <<>> THEN [raised |-> "", reps |-> SomeList(<<>>)]
    ELSE IF ~AllDigits(Head(pieces)) THEN [raised |-> "ValueError", reps |-> NoneList]
    ELSE LET rest == IntList(Tail(pieces)) IN
         IF rest.raised # "" THEN rest
         ELSE [raised |-> "", reps |-> SomeList(<<DigitsToNat(Head(pieces))>> \o rest.reps.items)]

\* the compact scheme read with sets and reps changed over
MutantRepsSwapped(reps_raw) ==
    IF Contains(reps_raw, "/") THEN IntList(Split(reps_raw, "/"))
    ELSE IF Contains(reps_raw, "x")
      THEN LET parts == Split(reps_raw, "x") IN
           [raised |-> "",
            reps |-> SomeList([i \in 1..DigitsToNat(parts[2]) |-> DigitsToNat(parts[1])])]
    ELSE [raised |-> "", reps |-> NoneList]

\* lines 92-98: the rep scheme text to the list reps
ParseReps(reps_raw) ==
    IF Contains(reps_raw, "/") THEN IntList(Split(reps_raw, "/"))
    ELSE IF Contains(reps_raw, "x")
      THEN LET parts == Split(reps_raw, "x") IN
           IF Len(parts) # 2 \/ ~AllDigits(parts[1])
             THEN [raised |-> "ValueError", reps |-> NoneList]
           ELSE IF DigitsToNat(parts[1]) = 0 THEN [raised |-> "", reps |-> SomeList(<<>>)]
           ELSE IF ~AllDigits(parts[2]) THEN [raised |-> "ValueError", reps |-> NoneList]
           ELSE [raised |-> "",
                 reps |-> SomeList([i \in 1..DigitsToNat(parts[1]) |-> DigitsToNat(parts[2])])]
    ELSE [raised |-> "", reps |-> NoneList]

\* re.sub("'|\"", "", text)
RECURSIVE DropQuotes(_)
DropQuotes(text) ==
    IF text = <<>> THEN <<>>
    ELSE IF Head(text) \in {"'", "\""} THEN DropQuotes(Tail(text))
    ELSE <<Head(text)>> \o DropQuotes(Tail(text))

\* text.strip()
RECURSIVE Strip(_)
Strip(text) ==
    IF text = <<>> THEN <<>>
    ELSE IF Head(text) = " " THEN Strip(Tail(text))
    ELSE IF text[Len(text)] = " " THEN Strip(SubSeq(text, 1, Len(text) - 1))
    ELSE text

\* process_details, lines 79-115
process_details(details) ==
    LET parsed  == IF "rep_scheme" \in DOMAIN details
                     THEN ParseReps(details["rep_scheme"])
                     ELSE [raised |-> "", reps |-> NoneList]
        reps    == parsed.reps
        weighed == IF "weight" \in DOMAIN details
                     THEN process_weights(details["weight"])
                     ELSE [raised |-> "", result |-> <<>>]
        weights == IF "weight" \in DOMAIN details /\ weighed.raised = ""
                     THEN SomeList(weighed.result) ELSE NoneList
        sets    == IF weights.items # <<>> /\ reps.items # <<>>
                     THEN [i \in 1..Len(reps.items) |->
                              TrainingSet(reps.items[i], get_or_last(weights.items, i))]
                     ELSE <<>>
        note    == IF "note" \in DOMAIN details
                     THEN SomeText(Strip(DropQuotes(details["note"])))
                     ELSE NoneText
    IN  IF parsed.raised # ""
          THEN [raised |-> parsed.raised, reps |-> NoneList, weights |-> NoneList,
                sets |-> <<>>, note |-> NoneText]
        ELSE IF weighed.raised # ""
          THEN [raised |-> weighed.raised, reps |-> reps, weights |-> NoneList,
                sets |-> <<>>, note |-> NoneText]
        ELSE [raised |-> "", reps |-> reps, weights |-> weights,
              sets |-> sets, note |-> note]

\* ---- the movement lines ----------------------------------------------------

\* str(n)
RECURSIVE NatToDigits(_)
NatToDigits(n) ==
    LET last == CHOOSE c \in Digit : DigitValue(c) = n % 10 IN
    IF n < 10 THEN <<last>> ELSE NatToDigits(n \div 10) \o <<last>>

RepValues == {1, 5, 10}

Absent == [kind |-> "absent"]

\* a rep scheme is written NxR, R1/R2/.../Rn or as a single number
RepSources ==
    { [kind |-> "compact", n |-> n, r |-> r] : n \in 0..MaxSets, r \in RepValues }
      \cup { [kind |-> "expanded", reps |-> rs] :
                rs \in UNION { [1..n -> RepValues] : n \in 2..MaxSets } }
      \cup { [kind |-> "single", r |-> r] : r \in RepValues }

RECURSIVE JoinReps(_)
JoinReps(rs) ==
    IF Len(rs) = 1 THEN NatToDigits(rs[1])
    ELSE NatToDigits(rs[1]) \o <<"/">> \o JoinReps(Tail(rs))

RepText(src) ==
    CASE src.kind = "compact"  -> NatToDigits(src.n) \o <<"x">> \o NatToDigits(src.r)
      [] src.kind = "expanded" -> JoinReps(src.reps)
      [] src.kind = "single"   -> NatToDigits(src.r)

DetailTokens == { <<"2", "4", "k", "g">>, <<"5", "l", "b", "s">>, <<"B", "W">> }

DetailWeights ==
    { [kind |-> "written", tokens |-> w.tokens, seps |-> w.seps] :
        w \in WeightSourcesOver(DetailTokens, MaxWeightTokens) }

NoteTexts == { <<"\"", "P", "R", " ", "\"">> }

DetailSources ==
    [weight : DetailWeights \cup {Absent},
     reps   : RepSources \cup {Absent},
     note   : NoteTexts \cup {<<>>}]

\* the dict the tree walk hands to process_details for a line written from src
DetailsOf(src) ==
    LET keys == (IF src.weight = Absent THEN {} ELSE {"weight"})
                  \cup (IF src.reps = Absent THEN {} ELSE {"rep_scheme"})
                  \cup (IF src.note = <<>> THEN {} ELSE {"note"})
    IN  [k \in keys |->
            CASE k = "weight"     -> WeightText(src.weight)
              [] k = "rep_scheme" -> RepText(src.reps)
              [] k = "note"       -> src.note]

ProcessDetails ==
    /\ parse_pc = "call"
    /\ parse_out' = process_details(parse_in)
    /\ parse_pc' = "done"
    /\ UNCHANGED <<parse_src, parse_in>>
    /\ ParseFrame

InitDetails ==
    /\ parse_src \in DetailSources
    /\ parse_in = DetailsOf(parse_src)
    /\ parse_pc = "call"
    /\ parse_out = <<>>
    /\ ShellIdle /\ PluginsIdle /\ ArgsIdle /\ StoreIdle

NextDetails == ProcessDetails

SpecDetails == InitDetails /\ [][NextDetails]_vars

\* the rep positions a scheme of the two written forms stands for
Positions(src) ==
    IF src.kind = "compact" THEN [i \in 1..src.n |-> src.r] ELSE src.reps

\* the parsed weight of one slice: the sum of its tokens, a parse failure when
\* a token fails
RECURSIVE SliceWeight(_)
SliceWeight(tokens) ==
    LET first == weight_text_to_quantity(Head(tokens)) IN
    IF Len(tokens) = 1 THEN first
    ELSE LET rest == SliceWeight(Tail(tokens)) IN
         IF first = NoneQ \/ rest = NoneQ THEN NoneQ ELSE QuantityAdd(first, rest)

\* C7: for a line with a weight field and a rep scheme, process_details
\* returns one TrainingSet per rep position, in order; position i has the
\* i-th parsed weight when there is one and the last parsed weight
\* otherwise, and a difference between the two lengths raises nothing.
C7_OneSetPerRepPosition ==
    (/\ parse_pc = "done"
     /\ parse_src.weight # Absent
     /\ parse_src.reps # Absent
     /\ parse_src.reps.kind \in {"compact", "expanded"})
    => LET positions == Positions(parse_src.reps)
           slices    == SlicesOf(parse_src.weight)
       IN  /\ parse_out.raised = ""
           /\ Len(parse_out.sets) = Len(positions)
           /\ \A i \in 1..Len(positions) :
                 /\ parse_out.sets[i].reps = positions[i]
                 /\ parse_out.sets[i].weight
                       = SliceWeight(slices[IF i <= Len(slices) THEN i ELSE Len(slices)])

\* C8: NxR gives N rep positions that are all R, and R1/R2/.../Rn gives the
\* n positions R1, ..., Rn in the order written.
C8_RepSchemePositions ==
    (/\ parse_pc = "done"
     /\ parse_src.reps # Absent
     /\ parse_src.reps.kind \in {"compact", "expanded"})
    => /\ parse_out.raised # "ValueError"
       /\ parse_out.reps.present
       /\ IF parse_src.reps.kind = "compact"
            THEN /\ Len(parse_out.reps.items) = parse_src.reps.n
                 /\ \A i \in 1..Len(parse_out.reps.items) :
                       parse_out.reps.items[i] = parse_src.reps.r
            ELSE parse_out.reps.items = parse_src.reps.reps

C8_Witness ==
    /\ parse_pc = "done"
    /\ parse_src.reps # Absent
    /\ parse_src.reps.kind = "compact"
    /\ parse_src.reps.n = 3
    /\ parse_src.reps.r = 10
    /\ parse_out.reps.items = <<10, 10, 10>>
    /\ Len(parse_out.sets) = 3

-----------------------------------------------------------------------------
(* parse.py: a slice written with "+".                                     *)

\* C11: a slice that contains "+" parses to the sum of its tokens when every
\* token parses (24kg+32kg is 56 kilogram) and to a parse failure when one of
\* them fails; process_weights raises nothing.
C11_CombinedSliceSumsOrFails ==
    parse_pc = "done" =>
        LET slices == SlicesOf(parse_src) IN
        /\ parse_out.raised = ""
        /\ Len(parse_out.result) = Len(slices)
        /\ \A i \in 1..Len(slices) :
              Len(slices[i]) > 1 => parse_out.result[i] = SliceWeight(slices[i])
        /\ parse_in = <<"2", "4", "k", "g", "+", "3", "2", "k", "g">>
              => parse_out.result = <<Quantity(56, "kilogram")>>

-----------------------------------------------------------------------------
(* parse.py: process_node(node).                                           *)
(*                                                                         *)
(* A node is the tree-sitter node of one top-level entry: its type, and    *)
(* for an entry its flag, date, name and item lines.  A date is the number *)
(* of its day.  The outcome is None or a TrainingSession.                  *)

NoSession == [kind |-> "None"]

NoneName == [present |-> FALSE, text |-> ""]
SomeName(text) == [present |-> TRUE, text |-> text]

Movement(name, sets, note) == [name |-> name, sets |-> sets, note |-> note]

TrainingSession(name, date, flag, movements) ==
    [kind |-> "TrainingSession", name |-> name, date |-> date, flag |-> flag,
     movements |-> movements]

Returned(value) == [raised |-> "", value |-> value]
Raised(error) == [raised |-> error, value |-> NoSession]

\* text.strip().strip(":") of get_item, lines 42-44
RECURSIVE StripColon(_)
StripColon(text) ==
    IF text = <<>> THEN <<>>
    ELSE IF Head(text) = ":" THEN StripColon(Tail(text))
    ELSE IF text[Len(text)] = ":" THEN StripColon(SubSeq(text, 1, Len(text) - 1))
    ELSE text

get_item(line) == StripColon(Strip(line.item))

\* Movement(name=item, sets=sets, note=note) from what process_details gave
MovementFrom(line, made) ==
    [raised |-> made.raised,
     movement |-> Movement(get_item(line), made.sets, made.note)]

\* item, details, process_details and Movement of one item line
MovementOf(line) == MovementFrom(line, process_details(line.details))

\* movements.append(...), unless the line or a later one raised
Prepend(first, rest) ==
    IF first.raised # "" THEN [raised |-> first.raised, movements |-> <<>>]
    ELSE IF rest.raised # "" THEN rest
    ELSE [raised |-> "", movements |-> <<first.movement>> \o rest.movements]

\* the loop of process_session_block_completed, lines 146-150
RECURSIVE MovementsOf(_)
MovementsOf(item_lines) ==
    IF item_lines = <<>> THEN [raised |-> "", movements |-> <<>>]
    ELSE Prepend(MovementOf(Head(item_lines)), MovementsOf(Tail(item_lines)))

\* TrainingSession(name=None, date=date, flag=flag, movements=movement)
SinglelineSession(raw_entry, made) ==
    IF made.raised # "" THEN Raised(made.raised)
    ELSE Returned(TrainingSession(NoneName, raw_entry.date, raw_entry.flag,
                                  <<made.movement>>))

\* process_singleline_entry, lines 154-168, with lines 118-131
process_singleline_entry(raw_entry) ==
    IF raw_entry.flag = "W" THEN Returned(NoSession)
    ELSE IF raw_entry.flag \in {"*", "!"}
      THEN SinglelineSession(raw_entry, MovementOf(raw_entry.items[1]))
    ELSE Returned(NoSession)

\* TrainingSession(name=name, flag=flag, date=date, movements=tuple(movements))
BlockSession(raw_entry, made) ==
    IF made.raised # "" THEN Raised(made.raised)
    ELSE Returned(TrainingSession(SomeName(raw_entry.name), raw_entry.date,
                                  raw_entry.flag, made.movements))

\* process_session_block_pending, lines 171-177
process_session_block_pending(raw_entry) == Returned(NoSession)

\* process_session_block, lines 180-195, with lines 134-151
process_session_block(raw_entry) ==
    IF raw_entry.flag \in {"*", "!"}
      THEN BlockSession(raw_entry, MovementsOf(raw_entry.items))
    ELSE process_session_block_pending(raw_entry)

\* process_node, lines 198-212
process_node(node) ==
    IF node.type = "singleline_entry" THEN process_singleline_entry(node)
    ELSE IF node.type = "session_block" THEN process_session_block(node)
    ELSE Returned(NoSession)

\* ---- the nodes -------------------------------------------------------------

Flags == {"*", "!", "W"}

NodeDays == {1, 2}

ItemNames == { <<"s", "q", ":">>, <<"p", "u", ":">> }

\* the details of an item line: a weight with a compact scheme, bodyweight
\* with an expanded scheme, and a "+" slice with a token that does not parse
ItemDetails ==
    { [weight |-> [kind |-> "written", tokens |-> << <<"2", "4", "k", "g">> >>, seps |-> <<>>],
       reps   |-> [kind |-> "compact", n |-> 3, r |-> 5],
       note   |-> <<>>],
      [weight |-> [kind |-> "written", tokens |-> << <<"B", "W">> >>, seps |-> <<>>],
       reps   |-> [kind |-> "expanded", reps |-> <<10, 5>>],
       note   |-> <<"\"", "P", "R", " ", "\"">>],
      [weight |-> [kind |-> "written",
                   tokens |-> << <<"2", "4", "k", "g">>, <<"B", "W">> >>, seps |-> <<"+">>],
       reps   |-> [kind |-> "compact", n |-> 1, r |-> 1],
       note   |-> <<>>] }

ItemLines == { [item |-> i, details |-> DetailsOf(d)] : i \in ItemNames, d \in ItemDetails }

ItemLists == UNION { [1..n -> ItemLines] : n \in 0..MaxItems }

Node(type, flag, date, name, items) ==
    [type |-> type, flag |-> flag, date |-> date, name |-> name, items |-> items]

SinglelineNodes ==
    { Node("singleline_entry", f, d, "", <<i>>) : f \in Flags, d \in NodeDays, i \in ItemLines }

BlockNodes ==
    { Node("session_block", f, d, "Upper", is) : f \in Flags, d \in NodeDays, is \in ItemLists }

\* what process_node skips (line 211) and what the grammar could not read
OtherNodes ==
    { Node(t, "", 0, "", <<>>) : t \in {"comment", "template_block", "exercise_block", "ERROR"} }

Nodes == SinglelineNodes \cup BlockNodes \cup OtherNodes

ProcessNode ==
    /\ parse_pc = "call"
    /\ parse_out' = process_node(parse_in)
    /\ parse_pc' = "done"
    /\ UNCHANGED <<parse_src, parse_in>>
    /\ ParseFrame

InitNode ==
    /\ parse_src \in Nodes
    /\ parse_in = parse_src
    /\ parse_pc = "call"
    /\ parse_out = <<>>
    /\ ShellIdle /\ PluginsIdle /\ ArgsIdle /\ StoreIdle

NextNode == ProcessNode

SpecNode == InitNode /\ [][NextNode]_vars

\* what process_node gives for the ignored and the malformed nodes
IgnoredOutcomes == { process_node(other) : other \in OtherNodes }

\* a weigh-in entry or a planned session block
Unsupported(node) ==
    \/ node.type = "singleline_entry" /\ node.flag = "W"
    \/ node.type = "session_block" /\ node.flag = "!"

\* C12: for a single-line entry flagged W and for a session block flagged !
\* process_node raises nothing and produces no session, and what it returns
\* differs from what it returns for an ignored or malformed node.
C12_UnsupportedIsExplicit ==
    (parse_pc = "done" /\ Unsupported(parse_src))
    => /\ parse_out.raised = ""
       /\ parse_out.value.kind # "TrainingSession"
       /\ parse_out \notin IgnoredOutcomes

-----------------------------------------------------------------------------
(* data.py: Movement.to_ox and _format_weight.                             *)
(*                                                                         *)
(* A movement handed to to_ox need not come from the parser, so the weight *)
(* of a set may have a fractional magnitude: it is kept in tenths.         *)

Weight(tenths, units) == [units |-> units, tenths |-> tenths]

\* the quantity the parser made, as a weight in tenths
AsWeight(q) == Weight(10 * Magnitude(q), q.units)

\* str(weight.units)
UnitName(units) ==
    CASE units = "kilogram" -> <<"k", "i", "l", "o", "g", "r", "a", "m">>
      [] units = "pound"    -> <<"p", "o", "u", "n", "d">>
      [] units = "gram"     -> <<"g", "r", "a", "m">>

\* unit_map.get(str(weight.units), str(weight.units)), lines 14-15
UnitStr(units) ==
    CASE units = "kilogram" -> <<"k", "g">>
      [] units = "pound"    -> <<"l", "b", "s">>
      [] OTHER              -> UnitName(units)

\* _format_weight, lines 12-21
format_weight(weight) ==
    LET whole == NatToDigits(weight.tenths \div 10)
        mag   == IF weight.tenths % 10 = 0 THEN whole
                 ELSE whole \o <<".">> \o NatToDigits(weight.tenths % 10)
    IN  mag \o UnitStr(weight.units)

\* sep.join(pieces)
RECURSIVE Join(_, _)
Join(pieces, sep) ==
    IF pieces = <<>> THEN <<>>
    ELSE IF Len(pieces) = 1 THEN pieces[1]
    ELSE pieces[1] \o sep \o Join(Tail(pieces), sep)

AllNone(weights) == \A i \in 1..Len(weights) : weights[i] = NoneQ

\* all(w is not None and w == weights[0] for w in weights)
AllFirst(weights) == \A i \in 1..Len(weights) : weights[i] # NoneQ /\ weights[i] = weights[1]

AllEqual(reps) == \A i \in 1..Len(reps) : reps[i] = reps[1]

BW == <<"B", "W">>

\* lines 100-110: the weight part
WeightPart(weights) ==
    IF AllNone(weights) THEN BW
    ELSE IF AllFirst(weights) THEN format_weight(weights[1])
    ELSE Join([i \in 1..Len(weights) |->
                  IF weights[i] # NoneQ THEN format_weight(weights[i]) ELSE BW], <<"/">>)

\* the rep part written one count per set whatever the weights are
MutantRepList(weights, reps, compact_reps) ==
    Join([i \in 1..Len(reps) |-> NatToDigits(reps[i])], <<"/">>)

\* lines 112-118: the rep part
RepPart(weights, reps, compact_reps) ==
    IF AllEqual(reps) /\ (compact_reps \/ AllNone(weights) \/ AllFirst(weights))
      THEN NatToDigits(Len(reps)) \o <<"x">> \o NatToDigits(reps[1])
      ELSE Join([i \in 1..Len(reps) |-> NatToDigits(reps[i])], <<"/">>)

\* lines 94-118 and 120-121: parts
Parts(self, compact_reps) ==
    LET weights == [i \in 1..Len(self.sets) |-> self.sets[i].weight]
        reps    == [i \in 1..Len(self.sets) |-> self.sets[i].reps]
    IN  (IF self.sets # <<>>
           THEN <<WeightPart(weights), RepPart(weights, reps, compact_reps)>>
           ELSE <<>>)
        \o (IF self.note.present /\ self.note.text # <<>>
              THEN << <<"\"">> \o self.note.text \o <<"\"">> >>
              ELSE <<>>)

\* f"{self.name}: {detail_str}" if detail_str else f"{self.name}:", lines 123-124
Rendered(name, detail_str) ==
    IF detail_str # <<>> THEN name \o <<":", " ">> \o detail_str ELSE name \o <<":">>

\* Movement.to_ox, lines 85-125
to_ox(self, compact_reps) == Rendered(self.name, Join(Parts(self, compact_reps), <<" ">>))

\* ---- the movements and the way back through the parser --------------------

\* the fields of a rendered movement line as the grammar hands them over: the
\* text after "<name>: " is cut at blanks, a piece in quotes is the note, and
\* of the others the first is the weight and the second the rep scheme
FieldsOf(text) ==
    LET at     == IndexOf(text, " ", 1)
        pieces == IF at = 0 THEN <<>> ELSE Split(SubSeq(text, at + 1, Len(text)), " ")
        plain  == SelectSeq(pieces, LAMBDA piece : Head(piece) # "\"")
        quoted == SelectSeq(pieces, LAMBDA piece : Head(piece) = "\"")
        keys   == (IF Len(plain) >= 1 THEN {"weight"} ELSE {})
                    \cup (IF Len(plain) >= 2 THEN {"rep_scheme"} ELSE {})
                    \cup (IF Len(quoted) >= 1 THEN {"note"} ELSE {})
    IN  [k \in keys |->
            CASE k = "weight"     -> plain[1]
              [] k = "rep_scheme" -> plain[2]
              [] k = "note"       -> quoted[1]]

OxWeights ==
    { Weight(240, "kilogram"), Weight(25, "kilogram"), Weight(1350, "pound"),
      Weight(5000, "gram") }

OxReps == {5, 10}

OxSets == { TrainingSet(r, w) : r \in OxReps, w \in OxWeights \cup {NoneQ} }

OxNotes == { NoneText, SomeText(<<"P", "R">>) }

OxMovements ==
    { Movement(<<"s", "q">>, sets, note) :
        sets \in UNION { [1..n -> OxSets] : n \in 0..MaxSets }, note \in OxNotes }

ToOx ==
    /\ parse_pc = "call"
    /\ parse_out' = [text |-> to_ox(parse_in, parse_src.compact_reps), parsed |-> <<>>]
    /\ parse_pc' = "text"
    /\ UNCHANGED <<parse_src, parse_in>>
    /\ ParseFrame

Reparse ==
    /\ parse_pc = "text"
    /\ parse_out' = [parse_out EXCEPT !.parsed = process_details(FieldsOf(parse_out.text))]
    /\ parse_pc' = "done"
    /\ UNCHANGED <<parse_src, parse_in>>
    /\ ParseFrame

InitOx ==
    /\ parse_src \in [movement : OxMovements, compact_reps : BOOLEAN]
    /\ parse_in = parse_src.movement
    /\ parse_pc = "call"
    /\ parse_out = [text |-> <<>>, parsed |-> <<>>]
    /\ ShellIdle /\ PluginsIdle /\ ArgsIdle /\ StoreIdle

NextOx == ToOx \/ Reparse

SpecOx == InitOx /\ [][NextOx]_vars

SetWeights(movement) == [i \in 1..Len(movement.sets) |-> movement.sets[i].weight]
SetReps(movement) == [i \in 1..Len(movement.sets) |-> movement.sets[i].reps]

\* C13: a movement with at least one set, one weight shared by all sets and
\* equal reps comes back from to_ox and the parser with as many sets, the
\* same reps in every set and the same weight magnitude and unit in every set.
C13_ToOxRoundTrip ==
    (/\ parse_pc = "done"
     /\ parse_in.sets # <<>>
     /\ AllFirst(SetWeights(parse_in))
     /\ AllEqual(SetReps(parse_in)))
    => /\ parse_out.parsed.raised = ""
       /\ Len(parse_out.parsed.sets) = Len(parse_in.sets)
       /\ \A i \in 1..Len(parse_in.sets) :
             /\ parse_out.parsed.sets[i].reps = parse_in.sets[i].reps
             /\ parse_out.parsed.sets[i].weight # NoneQ
             /\ AsWeight(parse_out.parsed.sets[i].weight) = parse_in.sets[i].weight

\* ---- what a rendered line must look like ----------------------------------

\* the note rendered after the weight and rep parts
NoteSuffix(movement) ==
    IF movement.note.present THEN <<" ", "\"">> \o movement.note.text \o <<"\"">> ELSE <<>>

WeightOrBW(weight) == IF weight = NoneQ THEN BW ELSE format_weight(weight)

\* <name>: <weight-or-BW> <N>x<R>
CompactLine(movement) ==
    movement.name \o <<":", " ">> \o WeightOrBW(movement.sets[1].weight) \o <<" ">>
        \o NatToDigits(Len(movement.sets)) \o <<"x">> \o NatToDigits(movement.sets[1].reps)
        \o NoteSuffix(movement)

\* w1/w2/.../wn with BW for a bodyweight slot
RECURSIVE WeightList(_)
WeightList(sets) ==
    IF Len(sets) = 1 THEN WeightOrBW(sets[1].weight)
    ELSE WeightOrBW(sets[1].weight) \o <<"/">> \o WeightList(Tail(sets))

\* r1/r2/.../rn
RECURSIVE RepList(_)
RepList(sets) ==
    IF Len(sets) = 1 THEN NatToDigits(sets[1].reps)
    ELSE NatToDigits(sets[1].reps) \o <<"/">> \o RepList(Tail(sets))

\* <name>: <w1>/.../<wn> <r1>/.../<rn>
ExpandedLine(movement) ==
    movement.name \o <<":", " ">> \o WeightList(movement.sets) \o <<" ">>
        \o RepList(movement.sets) \o NoteSuffix(movement)

\* <name>: <w1>/.../<wn> <N>x<R>
MixedLine(movement) ==
    movement.name \o <<":", " ">> \o WeightList(movement.sets) \o <<" ">>
        \o NatToDigits(Len(movement.sets)) \o <<"x">> \o NatToDigits(movement.sets[1].reps)
        \o NoteSuffix(movement)

\* all sets share one weight, or all are bodyweight
OneWeight(movement) ==
    \A i \in 1..Len(movement.sets) : movement.sets[i].weight = movement.sets[1].weight

OneRepCount(movement) ==
    \A i \in 1..Len(movement.sets) : movement.sets[i].reps = movement.sets[1].reps

\* C14 as the spec words it: with one weight (or bodyweight throughout) and
\* equal reps the line is <name>: <weight-or-BW> <N>x<R>; with weights that
\* differ it is a "/"-joined weight list and a "/"-joined rep list, one entry
\* per set in set order, BW for a bodyweight slot.
C14_ToOxRendering ==
    (parse_pc \in {"text", "done"} /\ parse_in.sets # <<>>)
    => /\ (OneWeight(parse_in) /\ OneRepCount(parse_in))
             => parse_out.text = CompactLine(parse_in)
       /\ ~OneWeight(parse_in) => parse_out.text = ExpandedLine(parse_in)

\* C14 with the compact_reps argument of to_ox taken into account: as above
\* when it is false (the default); when it is true, equal reps are written
\* <N>x<R> after the weight list also when the weights differ.
C14_ToOxRenderingByCompactReps ==
    (parse_pc \in {"text", "done"} /\ parse_in.sets # <<>>)
    => /\ (OneWeight(parse_in) /\ OneRepCount(parse_in))
             => parse_out.text = CompactLine(parse_in)
       /\ (~OneWeight(parse_in) /\ ~(parse_src.compact_reps /\ OneRepCount(parse_in)))
             => parse_out.text = ExpandedLine(parse_in)
       /\ (~OneWeight(parse_in) /\ parse_src.compact_reps /\ OneRepCount(parse_in))
             => parse_out.text = MixedLine(parse_in)

C14_Witness ==
    /\ parse_pc = "text"
    /\ ~parse_src.compact_reps
    /\ Len(parse_in.sets) = 3
    /\ parse_in.sets[1].weight = Weight(240, "kilogram")
    /\ parse_in.sets[2].weight = NoneQ
    /\ parse_in.sets[3].weight = Weight(1350, "pound")
    /\ OneRepCount(parse_in)
    /\ parse_in.sets[1].reps = 5
    /\ ~parse_in.note.present
    /\ parse_out.text = <<"s", "q", ":", " ", "2", "4", "k", "g", "/", "B", "W", "/",
                          "1", "3", "5", "l", "b", "s", " ", "5", "/", "5", "/", "5">>

-----------------------------------------------------------------------------
(* db.py: create_db(log) and the store it builds.                          *)
(*                                                                         *)
(* A table is the sequence of its rows in insertion order.  A date stands  *)
(* for its ISO text as well: the text of session.date.isoformat() orders   *)
(* and compares as the date does.                                          *)

SqlNull == [null |-> TRUE]
Real(x) == [real |-> x]
Text(x) == [text |-> x]

EmptyStore == [sessions |-> <<>>, movements |-> <<>>, sets |-> <<>>]

Ids(table) == { table[i].id : i \in 1..Len(table) }

\* id INTEGER PRIMARY KEY AUTOINCREMENT, no row ever deleted
NextId(table) == Len(table) + 1

\* a row with no check of the session it names
MutantNoForeignKey(c, session_id, name, note) ==
    [error |-> "",
     conn  |-> [c EXCEPT !.movements =
                   Append(@, [id |-> NextId(c.movements), session_id |-> session_id,
                              name |-> name, note |-> note])]]

\* INSERT INTO movements (session_id, name, note), with foreign_keys = ON
InsertMovement(c, session_id, name, note) ==
    IF session_id \notin Ids(c.sessions) THEN [error |-> "IntegrityError", conn |-> c]
    ELSE [error |-> "",
          conn  |-> [c EXCEPT !.movements =
                        Append(@, [id |-> NextId(c.movements), session_id |-> session_id,
                                   name |-> name, note |-> note])]]

\* INSERT INTO sets (movement_id, reps, weight_magnitude, weight_unit)
InsertSet(c, movement_id, reps, mag, unit) ==
    IF movement_id \notin Ids(c.movements) THEN [error |-> "IntegrityError", conn |-> c]
    ELSE [error |-> "",
          conn  |-> [c EXCEPT !.sets =
                        Append(@, [id |-> NextId(c.sets), movement_id |-> movement_id,
                                   reps |-> reps, weight_magnitude |-> mag,
                                   weight_unit |-> unit])]]

\* INSERT INTO sessions (date, flag, name)
InsertSession(c, date, flag, name) ==
    [c EXCEPT !.sessions =
        Append(@, [id |-> NextId(c.sessions), date |-> date, flag |-> flag, name |-> name])]

\* a weight stored with its unit and no magnitude
MutantUnitOnly(weight) ==
    IF weight = NoneQ THEN <<SqlNull, SqlNull>>
    ELSE <<SqlNull, Text(weight.units)>>

\* _decompose_weight, lines 54-61
decompose_weight(weight) ==
    IF weight = NoneQ THEN <<SqlNull, SqlNull>>
    ELSE <<Real(Magnitude(weight)), Text(weight.units)>>

\* the insert of lines 92-96 with the pair _decompose_weight gave
StoreSet(c, movement_id, reps, pair) == InsertSet(c, movement_id, reps, pair[1], pair[2]).conn

\* lines 91-96: the sets of one movement
RECURSIVE StoreSets(_, _, _)
StoreSets(c, movement_id, sets) ==
    IF sets = <<>> THEN c
    ELSE StoreSets(StoreSet(c, movement_id, Head(sets).reps, decompose_weight(Head(sets).weight)),
                   movement_id, Tail(sets))

\* cursor.lastrowid after an insert into the table
LastRowId(table) == table[Len(table)].id

\* lines 89-96 once the movement's row is in
StoreMovementSets(c, movement) == StoreSets(c, LastRowId(c.movements), movement.sets)

\* lines 84-96: the movements of one session
RECURSIVE StoreMovements(_, _, _)
StoreMovements(c, session_id, movements) ==
    IF movements = <<>> THEN c
    ELSE StoreMovements(
            StoreMovementSets(
                InsertMovement(c, session_id, Head(movements).name, Head(movements).note).conn,
                Head(movements)),
            session_id, Tail(movements))

\* lines 82-96 once the session's row is in
StoreSessionMovements(c, session) == StoreMovements(c, LastRowId(c.sessions), session.movements)

\* lines 77-96: the sessions of the log
RECURSIVE StoreSessions(_, _)
StoreSessions(c, sessions) ==
    IF sessions = <<>> THEN c
    ELSE StoreSessions(
            StoreSessionMovements(
                InsertSession(c, Head(sessions).date, Head(sessions).flag, Head(sessions).name),
                Head(sessions)),
            Tail(sessions))

\* create_db, lines 64-99
create_db_rows(sessions) == StoreSessions(EmptyStore, sessions)

\* the view with LEFT JOIN sets: a movement without sets has a row of nulls
MutantLeftJoin(c) ==
    { [session_id |-> c.sessions[i].id, date |-> c.sessions[i].date,
       flag |-> c.sessions[i].flag, session_name |-> c.sessions[i].name,
       movement_id |-> c.movements[j].id, movement_name |-> c.movements[j].name,
       movement_note |-> c.movements[j].note, set_id |-> c.sets[k].id,
       reps |-> c.sets[k].reps, weight_magnitude |-> c.sets[k].weight_magnitude,
       weight_unit |-> c.sets[k].weight_unit] :
        <<i, j, k>> \in { t \in (1..Len(c.sessions)) \X (1..Len(c.movements)) \X (1..Len(c.sets)) :
                            /\ c.movements[t[2]].session_id = c.sessions[t[1]].id
                            /\ c.sets[t[3]].movement_id = c.movements[t[2]].id } }
    \cup
    { [session_id |-> c.sessions[i].id, date |-> c.sessions[i].date,
       flag |-> c.sessions[i].flag, session_name |-> c.sessions[i].name,
       movement_id |-> c.movements[j].id, movement_name |-> c.movements[j].name,
       movement_note |-> c.movements[j].note, set_id |-> SqlNull,
       reps |-> SqlNull, weight_magnitude |-> SqlNull, weight_unit |-> SqlNull] :
        <<i, j>> \in { t \in (1..Len(c.sessions)) \X (1..Len(c.movements)) :
                         /\ c.movements[t[2]].session_id = c.sessions[t[1]].id
                         /\ \A k \in 1..Len(c.sets) :
                               c.sets[k].movement_id # c.movements[t[2]].id } }

\* SELECT * FROM training: the view of lines 35-50, its rows as a set
TrainingView(c) ==
    { [session_id |-> c.sessions[i].id, date |-> c.sessions[i].date,
       flag |-> c.sessions[i].flag, session_name |-> c.sessions[i].name,
       movement_id |-> c.movements[j].id, movement_name |-> c.movements[j].name,
       movement_note |-> c.movements[j].note, set_id |-> c.sets[k].id,
       reps |-> c.sets[k].reps, weight_magnitude |-> c.sets[k].weight_magnitude,
       weight_unit |-> c.sets[k].weight_unit] :
        <<i, j, k>> \in { t \in (1..Len(c.sessions)) \X (1..Len(c.movements)) \X (1..Len(c.sets)) :
                            /\ c.movements[t[2]].session_id = c.sessions[t[1]].id
                            /\ c.sets[t[3]].movement_id = c.movements[t[2]].id } }

\* ---- the Logs --------------------------------------------------------------

Squat == <<"s", "q">>
Pullup == <<"p", "u">>

LogMovementLists ==
    LET light == Movement(Squat, <<TrainingSet(5, Quantity(24, "kilogram"))>>, NoneText)
        heavy == Movement(Squat, <<TrainingSet(5, NoneQ), TrainingSet(3, Quantity(135, "pound"))>>,
                          SomeText(<<"P", "R">>))
        bare  == Movement(Pullup, <<>>, NoneText)
    IN  { <<>>, <<light>>, <<heavy>>, <<bare, light>>, <<light, heavy>> }

LogDays == {1, 2}

LogSessions ==
    { TrainingSession(IF Len(ms) = 1 THEN NoneName ELSE SomeName("Upper"), d, f, ms) :
        d \in LogDays, f \in {"*", "!"}, ms \in LogMovementLists }

Logs == UNION { [1..n -> LogSessions] : n \in 0..MaxSessions }

StoreFrame == UNCHANGED <<shellVars, pluginVars, argVars, parseVars>>

CreateDb ==
    /\ store_pc = "log"
    /\ conn' = create_db_rows(training_log)
    /\ store_pc' = "store"
    /\ UNCHANGED <<training_log, answer>>
    /\ StoreFrame

\* what a statement on the connection gave
Inserted(op, ref, outcome) == [op |-> op, ref |-> ref, error |-> outcome.error]

\* conn.execute("INSERT INTO movements (session_id, name) VALUES (?, 'fake')")
InsertMovementRow ==
    /\ store_pc = "store"
    /\ \E session_id \in 0..(Len(conn.sessions) + 1) :
          LET outcome == InsertMovement(conn, session_id, <<"f", "a", "k", "e">>, NoneText) IN
          /\ conn' = outcome.conn
          /\ answer' = Inserted("movements", session_id, outcome)
    /\ store_pc' = "inserted"
    /\ UNCHANGED training_log
    /\ StoreFrame

\* conn.execute("INSERT INTO sets (movement_id, reps) VALUES (?, 1)")
InsertSetRow ==
    /\ store_pc = "store"
    /\ \E movement_id \in 0..(Len(conn.movements) + 1) :
          LET outcome == InsertSet(conn, movement_id, 1, SqlNull, SqlNull) IN
          /\ conn' = outcome.conn
          /\ answer' = Inserted("sets", movement_id, outcome)
    /\ store_pc' = "inserted"
    /\ UNCHANGED training_log
    /\ StoreFrame

\* conn.execute("SELECT * FROM training")
SelectTraining ==
    /\ store_pc = "store"
    /\ answer' = [op |-> "training", rows |-> TrainingView(conn)]
    /\ store_pc' = "selected"
    /\ UNCHANGED <<training_log, conn>>
    /\ StoreFrame

InitStore ==
    /\ training_log \in Logs
    /\ store_pc = "log"
    /\ conn = EmptyStore
    /\ answer = <<>>
    /\ ShellIdle /\ PluginsIdle /\ ArgsIdle /\ ParseIdle

NextStore == CreateDb \/ InsertMovementRow \/ InsertSetRow \/ SelectTraining

SpecStore == InitStore /\ [][NextStore]_vars

\* ---- the Log laid out flat --------------------------------------------------

\* the movements of the sessions from the i-th on, each with its session's place
RECURSIVE OwnedMovements(_, _)
OwnedMovements(sessions, i) ==
    IF i > Len(sessions) THEN <<>>
    ELSE [j \in 1..Len(sessions[i].movements) |->
             [session |-> i, movement |-> sessions[i].movements[j]]]
         \o OwnedMovements(sessions, i + 1)

\* the sets of the owned movements from the p-th on, each with its movement's place
RECURSIVE OwnedSets(_, _)
OwnedSets(owned, p) ==
    IF p > Len(owned) THEN <<>>
    ELSE [k \in 1..Len(owned[p].movement.sets) |->
             [session |-> owned[p].session, at |-> p, movement |-> owned[p].movement,
              set |-> owned[p].movement.sets[k]]]
         \o OwnedSets(owned, p + 1)

\* C15: in the store create_db built, every movements row names an existing
\* sessions row, the row of the session that owns the movement, and every
\* sets row names an existing movements row, the row of the movement that
\* owns the set; an insert that names a missing id is rejected.
C15_RowsReferenceTheirOwners ==
    store_pc \in {"store", "inserted", "selected"}
    => LET movements == OwnedMovements(training_log, 1)
           sets      == OwnedSets(movements, 1)
       IN  /\ \A j \in 1..Len(conn.movements) : conn.movements[j].session_id \in Ids(conn.sessions)
           /\ \A k \in 1..Len(conn.sets) : conn.sets[k].movement_id \in Ids(conn.movements)
           /\ Len(conn.sessions) = Len(training_log)
           /\ \A i \in 1..Len(training_log) :
                 /\ conn.sessions[i].date = training_log[i].date
                 /\ conn.sessions[i].flag = training_log[i].flag
                 /\ conn.sessions[i].name = training_log[i].name
           /\ store_pc # "inserted" =>
                 /\ Len(conn.movements) = Len(movements)
                 /\ Len(conn.sets) = Len(sets)
           /\ \A j \in 1..Len(movements) :
                 /\ conn.movements[j].name = movements[j].movement.name
                 /\ conn.movements[j].note = movements[j].movement.note
                 /\ conn.movements[j].session_id = conn.sessions[movements[j].session].id
           /\ \A k \in 1..Len(sets) :
                 /\ conn.sets[k].reps = sets[k].set.reps
                 /\ conn.sets[k].movement_id = conn.movements[sets[k].at].id
           /\ (store_pc = "inserted" /\ answer.op = "movements"
                 /\ answer.ref \notin Ids(conn.sessions)) => answer.error = "IntegrityError"
           /\ (store_pc = "inserted" /\ answer.op = "sets"
                 /\ answer.ref \notin Ids(conn.movements)) => answer.error = "IntegrityError"

C15_Witness ==
    /\ store_pc = "inserted"
    /\ Len(conn.movements) = 3
    /\ Len(conn.sets) = 3
    /\ conn.movements[3].session_id = 2
    /\ answer.op = "movements"
    /\ answer.ref = 3
    /\ answer.error = "IntegrityError"

\* C16: the training view has exactly one row per TrainingSet of the Log,
\* with that set's reps and weight, the name and note of its movement and the
\* date, flag and name of its session; it has as many rows as the sets table
\* and as the Log has sets; weight_magnitude and weight_unit are both null for
\* a bodyweight set and both non-null otherwise.
C16_ViewHasOneRowPerSet ==
    store_pc = "selected"
    => LET sets == OwnedSets(OwnedMovements(training_log, 1), 1) IN
       /\ Cardinality(answer.rows) = Len(sets)
       /\ Len(conn.sets) = Len(sets)
       /\ \A k \in 1..Len(sets) :
             LET rows    == { row \in answer.rows : row.set_id = conn.sets[k].id }
                 session == training_log[sets[k].session]
             IN  /\ Cardinality(rows) = 1
                 /\ \A row \in rows :
                       /\ row.reps = sets[k].set.reps
                       /\ row.movement_name = sets[k].movement.name
                       /\ row.movement_note = sets[k].movement.note
                       /\ row.date = session.date
                       /\ row.flag = session.flag
                       /\ row.session_name = session.name
                       /\ IF sets[k].set.weight = NoneQ
                            THEN row.weight_magnitude = SqlNull /\ row.weight_unit = SqlNull
                            ELSE /\ row.weight_magnitude = Real(Magnitude(sets[k].set.weight))
                                 /\ row.weight_unit = Text(sets[k].set.weight.units)

C16_Witness ==
    /\ store_pc = "selected"
    /\ Cardinality(answer.rows) = 4
    /\ \E row \in answer.rows :
          /\ row.weight_magnitude = SqlNull
          /\ row.movement_note = SomeText(<<"P", "R">>)
          /\ row.session_id = 2
    /\ \E row \in answer.rows :
          /\ row.weight_magnitude = Real(24)
          /\ row.weight_unit = Text("kilogram")
          /\ row.session_id = 1

-----------------------------------------------------------------------------
(* data.py: TrainingLog.movements, movement_history, most_recent_session.  *)

\* the (date, movement) pairs of one session for the name, lines 194-196
SessionPairs(session, name) ==
    LET named == SelectSeq(session.movements, LAMBDA movement : movement.name = name)
    IN  [j \in 1..Len(named) |-> <<session.date, named[j]>>]

\* TrainingLog.movements(name), lines 184-196
RECURSIVE movements(_, _)
movements(sessions, name) ==
    IF sessions = <<>> THEN <<>>
    ELSE SessionPairs(Head(sessions), name) \o movements(Tail(sessions), name)

\* the pair put in front of the pairs of its own date
RECURSIVE MutantInsertBefore(_, _)
MutantInsertBefore(sorted, pair) ==
    IF sorted = <<>> THEN <<pair>>
    ELSE IF pair[1] <= Head(sorted)[1] THEN <<pair>> \o sorted
    ELSE <<Head(sorted)>> \o MutantInsertBefore(Tail(sorted), pair)

\* one step of sorted(..., key=lambda x: x[0]): the pair goes behind every pair
\* whose date is not later, so pairs of one date keep their order
RECURSIVE InsertByDate(_, _)
InsertByDate(sorted, pair) ==
    IF sorted = <<>> THEN <<pair>>
    ELSE IF pair[1] < Head(sorted)[1] THEN <<pair>> \o sorted
    ELSE <<Head(sorted)>> \o InsertByDate(Tail(sorted), pair)

\* sorted(pairs, key=lambda x: x[0])
RECURSIVE SortedByDate(_, _)
SortedByDate(sorted, pairs) ==
    IF pairs = <<>> THEN sorted
    ELSE SortedByDate(InsertByDate(sorted, Head(pairs)), Tail(pairs))

\* movement_history, lines 198-207
movement_history(sessions, name) == SortedByDate(<<>>, movements(sessions, name))

\* the first pair of the history in place of the last
MutantFirst(history) ==
    IF history = <<>> THEN [raised |-> "IndexError", value |-> <<>>]
    ELSE [raised |-> "", value |-> history[1]]

\* history[-1]
Last(history) ==
    IF history = <<>> THEN [raised |-> "IndexError", value |-> <<>>]
    ELSE [raised |-> "", value |-> history[Len(history)]]

\* most_recent_session, lines 209-218
most_recent_session(sessions, name) == Last(movement_history(sessions, name))

NamesAsked == {Squat, Pullup, <<"d", "l">>}

MovementHistory ==
    /\ store_pc = "log"
    /\ \E name \in NamesAsked :
          answer' = [op |-> "movement_history", name |-> name, raised |-> "",
                     value |-> movement_history(training_log, name)]
    /\ store_pc' = "asked"
    /\ UNCHANGED <<training_log, conn>>
    /\ StoreFrame

Asked(op, name, outcome) ==
    [op |-> op, name |-> name, raised |-> outcome.raised, value |-> outcome.value]

MostRecentSession ==
    /\ store_pc = "log"
    /\ \E name \in NamesAsked :
          answer' = Asked("most_recent_session", name, most_recent_session(training_log, name))
    /\ store_pc' = "asked"
    /\ UNCHANGED <<training_log, conn>>
    /\ StoreFrame

NextLog == MovementHistory \/ MostRecentSession

SpecLog == InitStore /\ [][NextLog]_vars

\* the movements of the Log that have the name, in Log order, with their dates
Occurrences(sessions, name) ==
    LET named == SelectSeq(OwnedMovements(sessions, 1),
                           LAMBDA owned : owned.movement.name = name)
    IN  [i \in 1..Len(named) |-> <<sessions[named[i].session].date, named[i].movement>>]

\* the place of the i-th occurrence once ordered by date, equal dates in Log order
Rank(pairs, i) ==
    1 + Cardinality({ j \in 1..Len(pairs) :
                        pairs[j][1] < pairs[i][1] \/ (pairs[j][1] = pairs[i][1] /\ j < i) })

\* C17: movement_history(name) is exactly the (date, Movement) pairs of the
\* movements with that name, ascending by date, pairs of equal dates in the
\* order they have in the Log.
C17_HistorySortedAndStable ==
    (store_pc = "asked" /\ answer.op = "movement_history")
    => LET pairs == Occurrences(training_log, answer.name) IN
       /\ answer.raised = ""
       /\ Len(answer.value) = Len(pairs)
       /\ \A i \in 1..Len(pairs) : answer.value[Rank(pairs, i)] = pairs[i]

C17_Witness ==
    /\ store_pc = "asked"
    /\ answer.op = "movement_history"
    /\ answer.name = Squat
    /\ Len(training_log) = 2
    /\ training_log[1].date = 2
    /\ training_log[2].date = 2
    /\ Len(answer.value) = 3
    /\ answer.value[1][2] # answer.value[2][2]
    /\ answer.value[1][2] = training_log[1].movements[1]

\* C18: most_recent_session(name) is the last pair of movement_history(name),
\* an occurrence of the name with the latest date; it raises when no movement
\* of the Log has the name.
C18_MostRecentIsLastOfHistory ==
    (store_pc = "asked" /\ answer.op = "most_recent_session")
    => LET pairs   == Occurrences(training_log, answer.name)
           history == movement_history(training_log, answer.name)
       IN  IF pairs = <<>>
             THEN answer.raised # ""
             ELSE /\ answer.raised = ""
                  /\ answer.value = history[Len(history)]
                  /\ \E i \in 1..Len(pairs) : answer.value = pairs[i]
                  /\ \A i \in 1..Len(pairs) : pairs[i][1] <= answer.value[1]

C18_Witness ==
    /\ store_pc = "asked"
    /\ answer.op = "most_recent_session"
    /\ answer.name = Squat
    /\ Len(training_log) = 2
    /\ training_log[1].date = 2
    /\ training_log[2].date = 1
    /\ answer.raised = ""
    /\ answer.value[1] = 2
    /\ answer.value[2] = training_log[1].movements[Len(training_log[1].movements)]

-----------------------------------------------------------------------------
(* reports.py: TIME_BINS, the SQL expressions that give a date its period. *)
(*                                                                         *)
(* A date is the number of its day, 2024-01-01 (a Monday) being day 0; the *)
(* text of a date or of a period is the record of its fields.              *)

IsLeap(y) == (y % 4 = 0 /\ y % 100 # 0) \/ y % 400 = 0

DaysInYear(y) == IF IsLeap(y) THEN 366 ELSE 365

MonthLengths(y) ==
    <<31, IF IsLeap(y) THEN 29 ELSE 28, 31, 30, 31, 30, 31, 31, 30, 31, 30, 31>>

\* the year of day n and the day's place in it, counted from 0 (tm_yday)
RECURSIVE YearDay(_, _)
YearDay(y, n) ==
    IF n < 0 THEN YearDay(y - 1, n + DaysInYear(y - 1))
    ELSE IF n >= DaysInYear(y) THEN YearDay(y + 1, n - DaysInYear(y))
    ELSE [y |-> y, yday |-> n]

RECURSIVE MonthDay(_, _, _)
MonthDay(y, m, n) ==
    IF n >= MonthLengths(y)[m] THEN MonthDay(y, m + 1, n - MonthLengths(y)[m])
    ELSE [m |-> m, d |-> n + 1]

\* the fields of the date's text
InYear(yd) == [y |-> yd.y, md |-> MonthDay(yd.y, 1, yd.yday)]
Fields(ymd) == [y |-> ymd.y, m |-> ymd.md.m, d |-> ymd.md.d]
Ymd(n) == Fields(InYear(YearDay(2024, n)))

\* strftime('%w', col): the day of the week, Sunday = 0
Weekday(n) == (n + 7001) % 7

\* the week counted from the Monday before
MutantMondayStart(n) == n - ((Weekday(n) + 6) % 7)

\* date(col, '-' || strftime('%w', col) || ' days'), before it is rendered
WeekStart(n) == n - Weekday(n)

\* strftime('%W', col): week of the year 00-53, week 01 beginning with the
\* year's first Monday
WeekOfYear(yd, n) == (yd.yday + 7 - ((Weekday(n) + 6) % 7)) \div 7

\* strftime('%Y-W%W', col)
YearWeek(yd, n) == [y |-> yd.y, W |-> WeekOfYear(yd, n)]

\* strftime('%Y-%m', col)
YearMonth(ymd) == [y |-> ymd.y, m |-> ymd.m]

\* TIME_BINS[bin].format(col=col) evaluated on a row, lines 17-22
TIME_BINS(bin, col) ==
    CASE bin = "daily"      -> Ymd(col)
      [] bin = "weekly"     -> Ymd(WeekStart(col))
      [] bin = "weekly-num" -> YearWeek(YearDay(2024, col), col)
      [] bin = "monthly"    -> YearMonth(Ymd(col))

Bins == {"daily", "weekly", "weekly-num", "monthly"}

\* the days of 2024 and 2025
BinDays == 0..(DaysInYear(2024) + DaysInYear(2025) - 1)

DatedSession(date) == [id |-> 1, date |-> date, flag |-> "*", name |-> NoneName]

\* SELECT <expr> AS period FROM sessions, for a store of two sessions
SelectPeriod ==
    /\ store_pc = "store"
    /\ \E bin \in Bins :
          answer' = [op |-> "period", bin |-> bin,
                     rows |-> [i \in 1..Len(conn.sessions) |->
                                  TIME_BINS(bin, conn.sessions[i].date)]]
    /\ store_pc' = "selected"
    /\ UNCHANGED <<training_log, conn>>
    /\ StoreFrame

InitBins ==
    /\ \E first \in BinDays : \E gap \in 0..MaxGap :
          conn = [EmptyStore EXCEPT
                     !.sessions = <<DatedSession(first),
                                    [DatedSession(first + gap) EXCEPT !.id = 2]>>]
    /\ store_pc = "store"
    /\ training_log = <<>>
    /\ answer = <<>>
    /\ ShellIdle /\ PluginsIdle /\ ArgsIdle /\ ParseIdle

NextBins == SelectPeriod

SpecBins == InitBins /\ [][NextBins]_vars

\* ---- weeks, as the periods are meant to cut them ---------------------------

\* the days before the first of January of year y, counted from 2024-01-01
RECURSIVE DaysBeforeYear(_)
DaysBeforeYear(y) ==
    IF y = 2024 THEN 0
    ELSE IF y > 2024 THEN DaysBeforeYear(y - 1) + DaysInYear(y - 1)
    ELSE DaysBeforeYear(y + 1) - DaysInYear(y)

RECURSIVE DaysBeforeMonth(_, _)
DaysBeforeMonth(y, m) ==
    IF m = 1 THEN 0 ELSE DaysBeforeMonth(y, m - 1) + MonthLengths(y)[m - 1]

\* the day a date text names
DayOf(ymd) == DaysBeforeYear(ymd.y) + DaysBeforeMonth(ymd.y, ymd.m) + ymd.d - 1

\* 2023-12-31, day -1, was a Sunday
IsSunday(n) == (n + 7001) % 7 = 0

\* the Sunday-to-Saturday week a day lies in, numbered
SundayWeek(n) == (n + 7001) \div 7

\* C19: the weekly key of a date d is the date of the Sunday on or before d:
\* a Sunday, not after d and at most 6 days before it; two dates have the
\* same weekly key exactly when they lie in the same Sunday-to-Saturday week.
C19_WeeklyKeyIsTheSundayBefore ==
    (store_pc = "selected" /\ answer.op = "period" /\ answer.bin = "weekly")
    => /\ \A i \in 1..Len(answer.rows) :
             LET key == DayOf(answer.rows[i])
                 d   == conn.sessions[i].date
             IN  /\ IsSunday(key)
                 /\ key <= d
                 /\ d - key <= 6
                 /\ Ymd(key) = answer.rows[i]
       /\ (answer.rows[1] = answer.rows[2])
             <=> (SundayWeek(conn.sessions[1].date) = SundayWeek(conn.sessions[2].date))

\* Saturday 2024-12-28 and Sunday 2025-01-05: the keys 2024-12-22 and 2025-01-05
C19_Witness ==
    /\ store_pc = "selected"
    /\ answer.op = "period"
    /\ answer.bin = "weekly"
    /\ Ymd(conn.sessions[1].date) = [y |-> 2024, m |-> 12, d |-> 28]
    /\ answer.rows[1] = [y |-> 2024, m |-> 12, d |-> 22]
    /\ answer.rows[2] = [y |-> 2025, m |-> 1, d |-> 5]

\* C20: two dates of one calendar year have the same weekly-num key exactly
\* when they lie in the same Sunday-to-Saturday week (when they have the same
\* weekly key).
C20_WeeklyNumFollowsSundayWeeks ==
    (/\ store_pc = "selected" /\ answer.op = "period" /\ answer.bin = "weekly-num"
     /\ Ymd(conn.sessions[1].date).y = Ymd(conn.sessions[2].date).y)
    => ((answer.rows[1] = answer.rows[2])
          <=> (TIME_BINS("weekly", conn.sessions[1].date)
                 = TIME_BINS("weekly", conn.sessions[2].date)))

-----------------------------------------------------------------------------
(* reports.py: the reports over the store.                                 *)
(*                                                                         *)
(* A REAL the reports compute is kept in hundred-thousandths until it is   *)
(* rounded, and a rounded REAL is a whole number of tenths: 3375.0 is      *)
(* Tenths(33750).  The conversion factors are pint's, cut to five          *)
(* decimals.                                                               *)

Scale == 100000

Tenths(x) == [tenths |-> x]

\* ureg.parse_units(target_unit) succeeds: the unit names the registry knows
KnownUnits == {"lb", "kg", "m"}

\* float(Q_(1, db_unit).to(target).magnitude), in hundred-thousandths; pint
\* raises DimensionalityError when the target is no mass
Factor(db_unit, target) ==
    CASE target = "m" -> [raised |-> "DimensionalityError", factor |-> 0]
      [] target = "lb" /\ db_unit = "kilogram" -> [raised |-> "", factor |-> 220462]
      [] target = "kg" /\ db_unit = "pound" -> [raised |-> "", factor |-> 45359]
      [] target = "lb" /\ db_unit = "gram" -> [raised |-> "", factor |-> 220]
      [] target = "kg" /\ db_unit = "gram" -> [raised |-> "", factor |-> 100]
      [] OTHER -> [raised |-> "", factor |-> Scale]

\* _DB_UNITS, line 15
DB_UNITS == <<"kilogram", "pound">>

\* the CASE expression _weight_sql_expr builds, lines 37-41, evaluated on a
\* row: NULL for a NULL magnitude, and the magnitude as it is for a unit that
\* is not in _DB_UNITS
weight_sql_expr(weight_magnitude, weight_unit, target_unit) ==
    IF weight_magnitude = SqlNull THEN SqlNull
    ELSE IF \E i \in 1..Len(DB_UNITS) : weight_unit = Text(DB_UNITS[i])
      THEN Real(weight_magnitude.real * Factor(weight_unit.text, target_unit).factor)
    ELSE Real(weight_magnitude.real * Scale)

\* what building the expression raises, lines 33-39
weight_sql_raises(target_unit) ==
    IF target_unit \notin KnownUnits THEN "ValueError"
    ELSE Factor(DB_UNITS[1], target_unit).raised

\* _time_bin_expr, lines 44-58
time_bin_raises(bin) == IF bin \notin Bins THEN "ValueError" ELSE ""

\* the text of a period, as the numbers of its zero-padded fields
PeriodText(p) ==
    IF "d" \in DOMAIN p THEN <<p.y, p.m, p.d>>
    ELSE IF "W" \in DOMAIN p THEN <<p.y, p.W>>
    ELSE <<p.y, p.m>>

\* a < b for two texts of one shape
RECURSIVE TextBefore(_, _)
TextBefore(a, b) ==
    /\ a # <<>>
    /\ \/ Head(a) < Head(b)
       \/ Head(a) = Head(b) /\ TextBefore(Tail(a), Tail(b))

\* ORDER BY period over the periods of the groups
RECURSIVE OrderByPeriod(_)
OrderByPeriod(periods) ==
    IF periods = {} THEN <<>>
    ELSE LET first == CHOOSE p \in periods :
                         \A q \in periods : ~TextBefore(PeriodText(q), PeriodText(p))
         IN  <<first>> \o OrderByPeriod(periods \ {first})

\* SUM(reps) over the rows of a group
RECURSIVE SumReps(_)
SumReps(rows) ==
    IF rows = {} THEN 0
    ELSE LET row == CHOOSE r \in rows : TRUE IN row.reps + SumReps(rows \ {row})

\* SUM(reps * w) over the rows of a group whose w is not NULL
RECURSIVE SumVolume(_, _)
SumVolume(rows, unit) ==
    IF rows = {} THEN 0
    ELSE LET row == CHOOSE r \in rows : TRUE IN
         row.reps * weight_sql_expr(row.weight_magnitude, row.weight_unit, unit).real
           + SumVolume(rows \ {row}, unit)

\* ROUND(x, 1) of a value in hundred-thousandths
Round1(x) == Tenths((x + (Scale \div 20)) \div (Scale \div 10))

\* ROUND(x * 1.0 / n, 1)
RoundedQuotient(x, n) ==
    Tenths((2 * x + n * (Scale \div 10)) \div (2 * n * (Scale \div 10)))

\* one row of the SELECT of lines 80-89: SUM over no value is NULL, and so is
\* a division by zero
VolumeRow(period, weighted, total_volume, total_reps) ==
    <<period,
      IF weighted THEN Round1(total_volume) ELSE SqlNull,
      total_reps,
      IF weighted /\ total_reps # 0 THEN RoundedQuotient(total_volume, total_reps)
      ELSE SqlNull>>

GroupRow(group, period, unit) ==
    VolumeRow(period, \E row \in group : row.weight_magnitude # SqlNull,
              SumVolume({ row \in group : row.weight_magnitude # SqlNull }, unit),
              SumReps(group))

\* the SELECT of lines 78-91 over the rows WHERE movement_name = ?
VolumeRows(rows, bin, unit) ==
    LET periods == OrderByPeriod({ TIME_BINS(bin, row.date) : row \in rows }) IN
    [i \in 1..Len(periods) |->
        GroupRow({ row \in rows : TIME_BINS(bin, row.date) = periods[i] }, periods[i], unit)]

\* volume_over_time, lines 61-98
volume_over_time(c, movement, bin, unit) ==
    IF time_bin_raises(bin) # "" THEN [raised |-> time_bin_raises(bin), rows |-> <<>>]
    ELSE IF weight_sql_raises(unit) # "" THEN [raised |-> weight_sql_raises(unit), rows |-> <<>>]
    ELSE [raised |-> "",
          rows   |-> VolumeRows({ row \in TrainingView(c) : row.movement_name = movement },
                                bin, unit)]

\* ---- session_matrix ---------------------------------------------------------

\* the characters of the names, in the order of their code points
Alphabet ==
    <<"-", "a", "b", "c", "d", "e", "f", "g", "h", "i", "j", "k", "l", "m", "n", "o", "p",
      "q", "r", "s", "t", "u", "v", "w", "x", "y", "z">>

Ord(c) == CHOOSE i \in 1..Len(Alphabet) : Alphabet[i] = c

\* a < b for two names, as the BINARY collation has it
RECURSIVE NameBefore(_, _)
NameBefore(a, b) ==
    /\ b # <<>>
    /\ \/ a = <<>>
       \/ Ord(Head(a)) < Ord(Head(b))
       \/ Head(a) = Head(b) /\ NameBefore(Tail(a), Tail(b))

\* COUNT(DISTINCT session_id) of the movements rows of one name
Freq(c, name) ==
    Cardinality({ c.movements[j].session_id :
                    j \in { k \in 1..Len(c.movements) : c.movements[k].name = name } })

\* the names in the order of their text alone
RECURSIVE MutantOrderByName(_, _)
MutantOrderByName(c, names) ==
    IF names = {} THEN <<>>
    ELSE LET first == CHOOSE n \in names : \A o \in names : o = n \/ NameBefore(n, o)
         IN  <<first>> \o MutantOrderByName(c, names \ {first})

\* ORDER BY freq DESC, name over the names left
RECURSIVE OrderByFreq(_, _)
OrderByFreq(c, names) ==
    IF names = {} THEN <<>>
    ELSE LET first == CHOOSE n \in names : \A o \in names :
                         \/ o = n
                         \/ Freq(c, n) > Freq(c, o)
                         \/ Freq(c, n) = Freq(c, o) /\ NameBefore(n, o)
         IN  <<first>> \o OrderByFreq(c, names \ {first})

\* the query of lines 119-129
movement_names(c) ==
    OrderByFreq(c, { c.movements[j].name : j \in 1..Len(c.movements) })

\* the rows of sessions s JOIN movements m, lines 138-139
Joined(c, bin) ==
    { [period |-> TIME_BINS(bin, c.sessions[t[1]].date), movement_name |-> c.movements[t[2]].name,
       id |-> c.sessions[t[1]].id] :
        t \in { u \in (1..Len(c.sessions)) \X (1..Len(c.movements)) :
                  c.movements[u[2]].session_id = c.sessions[u[1]].id } }

\* pivot[period]: movement_name -> COUNT(DISTINCT s.id), for the groups there are
Pivot(joined, period) ==
    [m \in { r.movement_name : r \in { q \in joined : q.period = period } } |->
        Cardinality({ r.id : r \in { q \in joined : q.period = period /\ q.movement_name = m } })]

\* pivot[period].get(m, 0), line 157
Cell(counts, m) == IF m \in DOMAIN counts THEN counts[m] ELSE 0

\* line 157: the row of one period
MatrixRow(period, counts, names) ==
    <<period>> \o [i \in 1..Len(names) |-> Cell(counts, names[i])]

MatrixRows(joined, periods, names) ==
    [i \in 1..Len(periods) |-> MatrixRow(periods[i], Pivot(joined, periods[i]), names)]

PeriodColumn == <<"p", "e", "r", "i", "o", "d">>

\* session_matrix, lines 101-160
session_matrix(c, bin) ==
    IF time_bin_raises(bin) # "" THEN [raised |-> time_bin_raises(bin), columns |-> <<>>, rows |-> <<>>]
    ELSE [raised  |-> "",
          columns |-> <<PeriodColumn>> \o movement_names(c),
          rows    |-> MatrixRows(Joined(c, bin),
                                 OrderByPeriod({ r.period : r \in Joined(c, bin) }),
                                 movement_names(c))]

\* ---- builtins/e1rm.py ---------------------------------------------------------

FORMULAS == {"brzycki", "epley"}

\* round(x, 1) of the quotient of two whole numbers, in tenths
RoundedRatio(top, bottom) == (2 * top + bottom) \div (2 * bottom)

\* _brzycki and _epley on a weight in tenths, then round(.., 1), lines 18-27, 91
calc(formula, weight, reps) ==
    IF formula = "brzycki"
      THEN IF reps >= 37 THEN weight ELSE RoundedRatio(weight * 36, 37 - reps)
    ELSE RoundedRatio(weight * (30 + reps), 30)

\* t.movement_note LIKE '%^rm%': NULL for a NULL note, and LIKE takes no
\* notice of the case of a letter
LikeRm(note) ==
    /\ note.present
    /\ \E i \in 1..(Len(note.text) - 2) :
          /\ note.text[i] = "^"
          /\ note.text[i + 1] \in {"r", "R"}
          /\ note.text[i + 2] \in {"m", "M"}

\* the rows of lines 59-73, before their order
RmRows(c, movement) ==
    { row \in TrainingView(c) :
        /\ row.movement_name = movement
        /\ LikeRm(row.movement_note)
        /\ row.weight_magnitude # SqlNull }

\* seen_dates[date] after the loop of lines 82-85 over the rows of one date,
\* which come with the greatest weight_magnitude first (rows of one magnitude
\* in the order of their ids): the row of the greatest raw magnitude
Heaviest(rows) ==
    CHOOSE row \in rows : \A other \in rows :
        \/ other = row
        \/ row.weight_magnitude.real > other.weight_magnitude.real
        \/ /\ row.weight_magnitude.real = other.weight_magnitude.real
           /\ row.set_id < other.set_id

\* Q_(raw_weight, raw_unit).to(unit): what it raises
to_raises(unit) ==
    IF unit \notin KnownUnits THEN "UndefinedUnitError" ELSE Factor("kilogram", unit).raised

\* lines 89-92 for the row kept of one date
RmResult(row, formula, unit) ==
    LET converted == Round1(row.weight_magnitude.real
                              * Factor(row.weight_unit.text, unit).factor).tenths
    IN  <<Ymd(row.date), Tenths(calc(formula, converted, row.reps)), Tenths(converted), row.reps>>

\* lines 87-92: sorted(seen_dates)
RmResults(rows, dates, formula, unit) ==
    [i \in 1..Len(dates) |->
        RmResult(Heaviest({ row \in rows : Ymd(row.date) = dates[i] }), formula, unit)]

\* estimated_1rm, lines 36-95
estimated_1rm(c, movement, formula, unit) ==
    IF formula \notin FORMULAS THEN [raised |-> "ValueError", rows |-> <<>>]
    ELSE IF RmRows(c, movement) = {} THEN [raised |-> "", rows |-> <<>>]
    ELSE IF to_raises(unit) # "" THEN [raised |-> to_raises(unit), rows |-> <<>>]
    ELSE [raised |-> "",
          rows   |-> RmResults(RmRows(c, movement),
                               OrderByPeriod({ Ymd(row.date) : row \in RmRows(c, movement) }),
                               formula, unit)]

\* ---- the Logs the reports are run on ------------------------------------------

Bench == <<"b", "p">>

RmNote == SomeText(<<"^", "r", "m">>)

\* the movement lists of a session
ReportMovementLists ==
    LET bench  == Movement(Bench, [i \in 1..5 |-> TrainingSet(5, Quantity(135, "pound"))], NoneText)
        light  == Movement(Squat, <<TrainingSet(5, Quantity(24, "kilogram"))>>, NoneText)
        mixed  == Movement(Squat, <<TrainingSet(1, Quantity(100, "kilogram")),
                                    TrainingSet(3, Quantity(135, "pound"))>>, RmNote)
        top    == Movement(Squat, <<TrainingSet(2, Quantity(140, "pound"))>>, RmNote)
        plate  == Movement(Squat, <<TrainingSet(5, QuantityIn(500, "gram"))>>, NoneText)
        pullup == Movement(Pullup, <<TrainingSet(5, NoneQ)>>, NoneText)
    IN  { <<>>, <<bench>>, <<light, pullup>>, <<mixed>>, <<top, pullup>>, <<plate>>, <<pullup, bench>> }

\* Saturday 2024-01-06, Sunday 2024-01-07, Thursday 2024-02-01
ReportDays == {5, 6, 31}

ReportSessions ==
    { TrainingSession(NoneName, d, "*", ms) : d \in ReportDays, ms \in ReportMovementLists }

ReportLogs == UNION { [1..n -> ReportSessions] : n \in 0..MaxSessions }

\* the choices of a report's flags: the names there are and one there is not
BinChoices == Bins \cup {"yearly"}
UnitChoices == KnownUnits \cup {"xyz"}
FormulaChoices == FORMULAS \cup {"lombardi"}

\* volume_over_time(conn, movement, bin, unit)
VolumeOverTime ==
    /\ store_pc = "store"
    /\ \E movement \in {Squat, Pullup, Bench} : \E bin \in BinChoices : \E unit \in UnitChoices :
          answer' = [op |-> "volume", movement |-> movement, bin |-> bin, unit |-> unit,
                     result |-> volume_over_time(conn, movement, bin, unit)]
    /\ store_pc' = "reported"
    /\ UNCHANGED <<training_log, conn>>
    /\ StoreFrame

\* session_matrix(conn, bin)
SessionMatrix ==
    /\ store_pc = "store"
    /\ \E bin \in BinChoices :
          answer' = [op |-> "matrix", bin |-> bin, result |-> session_matrix(conn, bin)]
    /\ store_pc' = "reported"
    /\ UNCHANGED <<training_log, conn>>
    /\ StoreFrame

\* estimated_1rm(conn, movement, formula, unit)
Estimated1rm ==
    /\ store_pc = "store"
    /\ \E movement \in {Squat, Pullup} : \E formula \in FormulaChoices : \E unit \in UnitChoices :
          answer' = [op |-> "e1rm", movement |-> movement, formula |-> formula, unit |-> unit,
                     result |-> estimated_1rm(conn, movement, formula, unit)]
    /\ store_pc' = "reported"
    /\ UNCHANGED <<training_log, conn>>
    /\ StoreFrame

InitReports ==
    /\ training_log \in ReportLogs
    /\ store_pc = "log"
    /\ conn = EmptyStore
    /\ answer = <<>>
    /\ ShellIdle /\ PluginsIdle /\ ArgsIdle /\ ParseIdle

NextReports == CreateDb \/ VolumeOverTime \/ SessionMatrix \/ Estimated1rm

SpecReports == InitReports /\ [][NextReports]_vars

\* ---- the volume the Log holds ------------------------------------------------

\* the sets of the Log, each with its movement and the place of its session
LogSets == OwnedSets(OwnedMovements(training_log, 1), 1)

\* the places in LogSets of the sets of the movement that fall in the period
SetsIn(movement, bin, period) ==
    { k \in 1..Len(LogSets) :
        /\ LogSets[k].movement.name = movement
        /\ TIME_BINS(bin, training_log[LogSets[k].session].date) = period }

RECURSIVE RepsOf(_)
RepsOf(ks) ==
    IF ks = {} THEN 0
    ELSE LET k == CHOOSE j \in ks : TRUE IN LogSets[k].set.reps + RepsOf(ks \ {k})

\* reps times the weight in the unit asked for, in hundred-thousandths
RECURSIVE VolumeOf(_, _)
VolumeOf(ks, unit) ==
    IF ks = {} THEN 0
    ELSE LET k == CHOOSE j \in ks : TRUE
             w == LogSets[k].set.weight
         IN  LogSets[k].set.reps * Magnitude(w) * Factor(w.units, unit).factor
               + VolumeOf(ks \ {k}, unit)

Weighted(ks) == { k \in ks : LogSets[k].set.weight # NoneQ }

\* C21: volume_over_time gives one row per period that holds a set of a
\* movement of exactly the name asked for, in the order of the periods; in a
\* row, total_reps is the sum of the reps of the period's sets, total_volume is
\* the sum over the period's weighted sets of reps times the weight converted
\* from its own unit to the unit asked for, rounded to one decimal, and
\* avg_weight_per_rep is that sum divided by total_reps, rounded to one decimal;
\* five sets of 5 at 135 lb on one date give the one daily row
\* (date, 3375.0, 25, 135.0).
C21_VolumePerPeriod ==
    (store_pc = "reported" /\ answer.op = "volume" /\ answer.result.raised = "")
    => LET rows    == answer.result.rows
           periods == { TIME_BINS(answer.bin, training_log[LogSets[k].session].date) :
                          k \in { j \in 1..Len(LogSets) :
                                    LogSets[j].movement.name = answer.movement } }
       IN  /\ Len(rows) = Cardinality(periods)
           /\ \A i \in 1..Len(rows) : rows[i][1] \in periods
           /\ \A i \in 1..(Len(rows) - 1) :
                 TextBefore(PeriodText(rows[i][1]), PeriodText(rows[i + 1][1]))
           /\ \A i \in 1..Len(rows) :
                 LET ks == SetsIn(answer.movement, answer.bin, rows[i][1]) IN
                 /\ rows[i][3] = RepsOf(ks)
                 /\ Weighted(ks) # {} =>
                       /\ rows[i][2] = Round1(VolumeOf(Weighted(ks), answer.unit))
                       /\ rows[i][4] = RoundedQuotient(VolumeOf(Weighted(ks), answer.unit),
                                                       RepsOf(ks))
           /\ (/\ answer.movement = Bench /\ answer.bin = "daily" /\ answer.unit = "lb"
               /\ Len(training_log) = 1 /\ Len(LogSets) = 5)
                 => rows = << <<Ymd(training_log[1].date), Tenths(33750), 25, Tenths(1350)>> >>

\* ---- the sessions the Log holds, by movement and period ------------------------

\* the places of the sessions that contain a movement of the name
SessionsWith(name) ==
    { i \in 1..Len(training_log) :
        \E j \in 1..Len(training_log[i].movements) : training_log[i].movements[j].name = name }

LogNames ==
    { training_log[i].movements[j].name :
        <<i, j>> \in { t \in (1..Len(training_log)) \X (1..MaxItems + 1) :
                         t[2] <= Len(training_log[t[1]].movements) } }

\* C22: session_matrix gives the columns `period` and then each movement name
\* of the Log once, by the number of distinct sessions that contain the
\* movement, greatest first, names of one number in the order of their text;
\* there is one row per period that holds a session with a movement, in the
\* order of the periods; every row has one cell per column, and the cell of a
\* movement is the number of distinct sessions of the period that contain it,
\* a non-negative integer, 0 when there is none; an empty Log gives
\* (['period'], []).
C22_MatrixCountsSessions ==
    (store_pc = "reported" /\ answer.op = "matrix" /\ answer.result.raised = "")
    => LET columns == answer.result.columns
           rows    == answer.result.rows
           periods == { TIME_BINS(answer.bin, training_log[i].date) :
                          i \in { k \in 1..Len(training_log) : training_log[k].movements # <<>> } }
       IN  /\ columns[1] = PeriodColumn
           /\ { columns[j] : j \in 2..Len(columns) } = LogNames
           /\ Len(columns) = 1 + Cardinality(LogNames)
           /\ \A j \in 2..(Len(columns) - 1) :
                 \/ Cardinality(SessionsWith(columns[j])) > Cardinality(SessionsWith(columns[j + 1]))
                 \/ /\ Cardinality(SessionsWith(columns[j])) = Cardinality(SessionsWith(columns[j + 1]))
                    /\ NameBefore(columns[j], columns[j + 1])
           /\ Len(rows) = Cardinality(periods)
           /\ \A i \in 1..Len(rows) : rows[i][1] \in periods
           /\ \A i \in 1..(Len(rows) - 1) :
                 TextBefore(PeriodText(rows[i][1]), PeriodText(rows[i + 1][1]))
           /\ \A i \in 1..Len(rows) :
                 /\ Len(rows[i]) = Len(columns)
                 /\ \A j \in 2..Len(columns) :
                       /\ rows[i][j] \in Nat
                       /\ rows[i][j] =
                            Cardinality({ k \in SessionsWith(columns[j]) :
                                            TIME_BINS(answer.bin, training_log[k].date) = rows[i][1] })
           /\ training_log = <<>> => (columns = <<PeriodColumn>> /\ rows = <<>>)

\* two sessions in two weeks, three movements, one of them in both sessions
C22_Witness ==
    /\ store_pc = "reported"
    /\ answer.op = "matrix"
    /\ answer.bin = "weekly"
    /\ answer.result.columns = <<PeriodColumn, Pullup, Bench, Squat>>
    /\ answer.result.rows = << <<[y |-> 2023, m |-> 12, d |-> 31], 1, 0, 1>>,
                               <<[y |-> 2024, m |-> 1, d |-> 7], 1, 1, 0>> >>

\* ---- the max-effort sets the Log holds ------------------------------------------

\* the places in LogSets of the weighted sets of the movement whose note has the marker
RmSets(movement) ==
    { k \in 1..Len(LogSets) :
        /\ LogSets[k].movement.name = movement
        /\ LikeRm(LogSets[k].movement.note)
        /\ LogSets[k].set.weight # NoneQ }

DateOf(k) == training_log[LogSets[k].session].date

\* the weight of a set in one unit for all, in hundred-thousandths of a kilogram
ActualWeight(k) ==
    Magnitude(LogSets[k].set.weight) * Factor(LogSets[k].set.weight.units, "kg").factor

\* C23: estimated_1rm gives one row per calendar date that has a weighted set
\* of the movement under a note with the marker, in the order of the dates,
\* and the row of a date is computed from a set of that date whose actual
\* weight no other such set of the date exceeds, whatever the units the sets
\* are recorded in.
C23_HeaviestSetPerDate ==
    (store_pc = "reported" /\ answer.op = "e1rm" /\ answer.result.raised = "")
    => LET rows == answer.result.rows
           ks   == RmSets(answer.movement)
       IN  /\ Len(rows) = Cardinality({ DateOf(k) : k \in ks })
           /\ \A i \in 1..(Len(rows) - 1) :
                 TextBefore(PeriodText(rows[i][1]), PeriodText(rows[i + 1][1]))
           /\ \A i \in 1..Len(rows) :
                 \E k \in ks :
                    /\ Ymd(DateOf(k)) = rows[i][1]
                    /\ \A o \in ks : DateOf(o) = DateOf(k) => ActualWeight(o) <= ActualWeight(k)
                    /\ rows[i][4] = LogSets[k].set.reps
                    /\ rows[i][3] = Round1(Magnitude(LogSets[k].set.weight)
                                             * Factor(LogSets[k].set.weight.units,
                                                      answer.unit).factor)
                    /\ rows[i][2] = Tenths(calc(answer.formula, rows[i][3].tenths,
                                                LogSets[k].set.reps))

-----------------------------------------------------------------------------
(* reports.py: get_all_reports, the built-in reports merged with the       *)
(* plugin reports.                                                         *)

\* a descriptor with every key a plugin's register() gives, as e1rm.py does
FullDesc(t, n, text) ==
    [type |-> t, name |-> n, fn |-> text, description |-> text, params |-> <<>>]

\* the names of the params the reports and generators declare
movement_ == <<"m", "o", "v", "e", "m", "e", "n", "t">>
bin_ == <<"b", "i", "n">>
unit_ == <<"u", "n", "i", "t">>
formula_ == <<"f", "o", "r", "m", "u", "l", "a">>
training_max_ == <<"t", "r", "a", "i", "n", "i", "n", "g", "_", "m", "a", "x">>

\* a declared param of type str
Param(name, short, required, default) ==
    IF required THEN [name |-> name, type |-> "str", required |-> TRUE, short |-> short]
    ELSE [name |-> name, type |-> "str", required |-> FALSE, short |-> short,
          default |-> [str |-> default]]

\* REPORTS, lines 238-273
REPORTS ==
    [n \in {"volume", "matrix"} |->
        IF n = "volume"
          THEN [fn |-> "volume_over_time", description |-> "built-in",
                params |-> <<Param(movement_, <<"m">>, TRUE, <<>>),
                             Param(bin_, <<"b">>, FALSE, <<"w", "e", "e", "k", "l", "y">>),
                             Param(unit_, <<"u">>, FALSE, <<"l", "b">>)>>]
        ELSE [fn |-> "session_matrix", description |-> "built-in",
              params |-> <<Param(bin_, <<"b">>, FALSE, <<"w", "e", "e", "k", "l", "y">>)>>]]

\* the descriptors registered before the reports are merged
MergeDescriptors ==
    { FullDesc("report", "custom", "first"),
      FullDesc("report", "custom", "second"),
      FullDesc("report", "volume", "plugin"),
      FullDesc("generator", "volume", "generator"),
      [type |-> "report", name |-> "bare", fn |-> "fn"] }

\* desc[key]
Item(desc, key) ==
    IF key \in DOMAIN desc THEN [raised |-> "", value |-> desc[key]]
    ELSE [raised |-> "KeyError", value |-> "None"]

\* lines 282-286: the entry made of one plugin descriptor
MergedEntry(desc) ==
    IF \E key \in {"fn", "description", "params"} : Item(desc, key).raised # ""
      THEN [raised |-> "KeyError", value |-> desc]
    ELSE [raised |-> "",
          value  |-> [fn |-> Item(desc, "fn").value,
                      description |-> Item(desc, "description").value,
                      params |-> Item(desc, "params").value]]

\* the loop of lines 281-286 over the plugin names left; REPORTS is the
\* built-in registry as the call leaves it
RECURSIVE MergeLoop(_, _, _, _)
MergeLoop(builtins, merged, plugins, names) ==
    IF names = {} THEN [raised |-> "", value |-> merged, REPORTS |-> builtins]
    ELSE LET name == CHOOSE n \in names : TRUE IN
         IF MergedEntry(plugins[name]).raised # ""
           THEN [raised |-> MergedEntry(plugins[name]).raised, value |-> EmptyDict,
                 REPORTS |-> builtins]
         ELSE MergeLoop(builtins, DictSet(merged, name, MergedEntry(plugins[name]).value),
                        plugins, names \ {name})

\* get_all_reports, lines 276-287: merged = dict(REPORTS) is a copy
get_all_reports(builtins, plugins) == MergeLoop(builtins, builtins, plugins, DOMAIN plugins)

MergeFrame == UNCHANGED <<shellVars, argVars, parseVars, store_pc, training_log, conn>>

\* _register_descriptors on a list of the descriptors above
RegisterReports ==
    /\ \E descriptors \in UNION { [1..n -> MergeDescriptors] : n \in 1..MaxDescs } :
          LET after == register_descriptors(Registries, descriptors) IN
          /\ REPORT_PLUGINS' = after.reports
          /\ GENERATOR_PLUGINS' = after.generators
          /\ lastDescs' = descriptors
    /\ lastOp' = "register"
    /\ UNCHANGED <<present, loads, answer>>
    /\ MergeFrame

GetAllReports ==
    /\ answer' = [op |-> "get_all_reports", before |-> REPORT_PLUGINS,
                  result |-> get_all_reports(REPORTS, REPORT_PLUGINS)]
    /\ lastOp' = "get_all_reports"
    /\ UNCHANGED <<REPORT_PLUGINS, GENERATOR_PLUGINS, present, lastDescs, loads>>
    /\ MergeFrame

InitMerge == InitRegister /\ answer = <<>>

NextMerge == RegisterReports \/ GetAllReports

SpecMerge == InitMerge /\ [][NextMerge]_vars

\* C24: get_all_reports returns a map whose names are those of the built-in
\* reports and of the registered plugin reports; a name that is a registered
\* plugin report has the plugin's fn, description and params, also when a
\* built-in report has the name, and every other name has the built-in entry;
\* REPORTS and REPORT_PLUGINS are after the call what they were before it.
C24_MergedReports ==
    lastOp = "get_all_reports"
    => /\ answer.result.raised = ""
       /\ DOMAIN answer.result.value = DOMAIN REPORTS \cup DOMAIN REPORT_PLUGINS
       /\ \A n \in DOMAIN REPORT_PLUGINS :
             /\ answer.result.value[n].fn = REPORT_PLUGINS[n].fn
             /\ answer.result.value[n].description = REPORT_PLUGINS[n].description
             /\ answer.result.value[n].params = REPORT_PLUGINS[n].params
       /\ \A n \in DOMAIN REPORTS \ DOMAIN REPORT_PLUGINS : answer.result.value[n] = REPORTS[n]
       /\ answer.result.REPORTS = REPORTS
       /\ answer.before = REPORT_PLUGINS

-----------------------------------------------------------------------------
(* lint.py and lsp.py: the walk that collects the diagnostics of a tree.   *)
(*                                                                         *)
(* A node is [type, is_missing, children]; it is named by its path, the    *)
(* child indices from the root.  A diagnostic is kept as the path of its   *)
(* node and its message.                                                   *)

TreeNode(type, is_missing, children) ==
    [type |-> type, is_missing |-> is_missing, children |-> children]

\* the leaves: a token, a token the parser inserted, an ERROR with nothing in it
TreeLeaves ==
    { TreeNode("weight", FALSE, <<>>), TreeNode("weight", TRUE, <<>>),
      TreeNode("ERROR", FALSE, <<>>) }

\* the trees of n nodes, and the child lists of n nodes in all
RECURSIVE TreesOfSize(_), Forests(_)
TreesOfSize(n) ==
    IF n = 1 THEN TreeLeaves
    ELSE { TreeNode(type, FALSE, children) :
             type \in {"singleline_entry", "ERROR"}, children \in Forests(n - 1) }
Forests(n) ==
    IF n = 0 THEN {<<>>}
    ELSE UNION { { <<first>> \o others : first \in TreesOfSize(k), others \in Forests(n - k) } :
                   k \in 1..n }

Trees == UNION { TreesOfSize(n) : n \in 1..MaxNodes }

Diagnostic(path, message) == [node |-> path, message |-> message]

\* a walk that goes on into the ERROR subtrees
RECURSIVE MutantVisitAll(_, _), MutantVisitAllChildren(_, _, _)
MutantVisitAll(node, path) ==
    IF node.type = "ERROR"
      THEN <<Diagnostic(path, "Syntax error")>> \o MutantVisitAllChildren(node.children, path, 1)
    ELSE IF node.is_missing THEN <<Diagnostic(path, "Missing " \o node.type)>>
    ELSE MutantVisitAllChildren(node.children, path, 1)
MutantVisitAllChildren(children, path, i) ==
    IF i > Len(children) THEN <<>>
    ELSE MutantVisitAll(children[i], Append(path, i))
           \o MutantVisitAllChildren(children, path, i + 1)

\* lint.py visit, lines 10-36, and its loop over node.children from the i-th
RECURSIVE visit(_, _), visit_children(_, _, _)
visit(node, path) ==
    IF node.type = "ERROR" THEN <<Diagnostic(path, "Syntax error")>>
    ELSE IF node.is_missing THEN <<Diagnostic(path, "Missing " \o node.type)>>
    ELSE visit_children(node.children, path, 1)
visit_children(children, path, i) ==
    IF i > Len(children) THEN <<>>
    ELSE visit(children[i], Append(path, i)) \o visit_children(children, path, i + 1)

\* collect_diagnostics, lines 6-39
collect_diagnostics(tree) == visit(tree, <<>>)

\* lsp.py visit_node, lines 20-61, and its loop over node.children from the i-th
RECURSIVE visit_node(_, _), visit_node_children(_, _, _)
visit_node(node, path) ==
    IF node.type = "ERROR" THEN <<Diagnostic(path, "Syntax error")>>
    ELSE IF node.is_missing THEN <<Diagnostic(path, "Missing " \o node.type)>>
    ELSE visit_node_children(node.children, path, 1)
visit_node_children(children, path, i) ==
    IF i > Len(children) THEN <<>>
    ELSE visit_node(children[i], Append(path, i)) \o visit_node_children(children, path, i + 1)

\* get_diagnostics, lines 15-64, on the tree of the text
get_diagnostics(tree) == visit_node(tree, <<>>)

WalkFrame == UNCHANGED <<shellVars, pluginVars, argVars, storeVars>>

CollectDiagnostics ==
    /\ parse_pc = "call"
    /\ parse_out' = [by |-> "lint", diagnostics |-> collect_diagnostics(parse_in)]
    /\ parse_pc' = "done"
    /\ UNCHANGED <<parse_src, parse_in>>
    /\ WalkFrame

GetDiagnostics ==
    /\ parse_pc = "call"
    /\ parse_out' = [by |-> "lsp", diagnostics |-> get_diagnostics(parse_in)]
    /\ parse_pc' = "done"
    /\ UNCHANGED <<parse_src, parse_in>>
    /\ WalkFrame

InitWalk ==
    /\ parse_in \in Trees
    /\ parse_src = <<>>
    /\ parse_pc = "call"
    /\ parse_out = <<>>
    /\ ShellIdle /\ PluginsIdle /\ ArgsIdle /\ StoreIdle /\ answer = <<>>

NextWalk == CollectDiagnostics \/ GetDiagnostics

SpecWalk == InitWalk /\ [][NextWalk]_vars

\* ---- the nodes of a tree --------------------------------------------------------

\* the paths of all nodes of the tree, in pre-order
RECURSIVE PreOrder(_, _), PreOrderChildren(_, _, _)
PreOrder(node, path) == <<path>> \o PreOrderChildren(node.children, path, 1)
PreOrderChildren(children, path, i) ==
    IF i > Len(children) THEN <<>>
    ELSE PreOrder(children[i], Append(path, i)) \o PreOrderChildren(children, path, i + 1)

RECURSIVE NodeAt(_, _)
NodeAt(tree, path) ==
    IF path = <<>> THEN tree ELSE NodeAt(tree.children[Head(path)], Tail(path))

IsError(tree, path) == NodeAt(tree, path).type = "ERROR"
IsMissing(tree, path) == NodeAt(tree, path).is_missing

\* no node above the path's node is an ERROR or a MISSING node
Outermost(tree, path) ==
    \A n \in 0..(Len(path) - 1) :
        ~IsError(tree, SubSeq(path, 1, n)) /\ ~IsMissing(tree, SubSeq(path, 1, n))

\* C25: the walk of lint.py and the walk of lsp.py each give, for the same
\* tree, exactly one diagnostic for each ERROR node and each MISSING node that
\* has no ERROR or MISSING node above it, in pre-order, "Syntax error" for an
\* ERROR node and "Missing <type>" for a MISSING one, and none for any other
\* node: none inside an ERROR subtree, and the siblings after a MISSING node
\* are visited.
C25_OutermostFlaggedInPreOrder ==
    parse_pc = "done"
    => LET flagged(path) ==
               /\ IsError(parse_in, path) \/ IsMissing(parse_in, path)
               /\ Outermost(parse_in, path)
           expected == SelectSeq(PreOrder(parse_in, <<>>), flagged)
           got == parse_out.diagnostics
       IN  /\ Len(got) = Len(expected)
           /\ \A i \in 1..Len(got) :
                 /\ got[i].node = expected[i]
                 /\ got[i].message =
                      IF IsError(parse_in, expected[i]) THEN "Syntax error"
                      ELSE "Missing " \o NodeAt(parse_in, expected[i]).type
           /\ got = collect_diagnostics(parse_in)
           /\ got = get_diagnostics(parse_in)

\* a MISSING node, then a sibling ERROR node with an ERROR node inside it
C25_Witness ==
    /\ parse_pc = "done"
    /\ parse_in.type = "singleline_entry"
    /\ Len(parse_in.children) = 2
    /\ parse_in.children[1].is_missing
    /\ parse_in.children[2].type = "ERROR"
    /\ Len(parse_in.children[2].children) = 1
    /\ parse_in.children[2].children[1].type = "ERROR"
    /\ parse_out.diagnostics = <<Diagnostic(<<1>>, "Missing weight"),
                                 Diagnostic(<<2>>, "Syntax error")>>

-----------------------------------------------------------------------------
(* cli.py: the commands `report NAME ARGS` and `generate NAME ARGS`.       *)
(*                                                                         *)
(* The shell is at its prompt after the initial load: the Log is parsed,   *)
(* conn is its store, and load_plugins has registered the e1rm report and  *)
(* the wendler531 generator.                                               *)

\* the string a text spells
RECURSIVE Spelled(_)
Spelled(text) == IF text = <<>> THEN "" ELSE Head(text) \o Spelled(Tail(text))

\* builtins/e1rm.py register(), lines 98-123
E1rmDescriptor ==
    [type |-> "report", name |-> "e1rm", fn |-> "estimated_1rm", description |-> "e1rm",
     params |-> <<Param(movement_, <<"m">>, TRUE, <<>>),
                  Param(formula_, <<"f">>, FALSE, <<"b", "r", "z", "y", "c", "k", "i">>),
                  Param(unit_, <<"u">>, FALSE, <<"l", "b">>)>>]

\* examples/plugins/wendler531.py register(), lines 81-107 (start_date left out)
WendlerDescriptor ==
    [type |-> "generator", name |-> "wendler531", fn |-> "wendler531",
     description |-> "wendler531",
     params |-> <<Param(movement_, <<"m">>, TRUE, <<>>),
                  Param(training_max_, <<"t">>, TRUE, <<>>),
                  Param(unit_, <<"u">>, FALSE, <<"l", "b", "s">>)>>]

\* wendler531, lines 39-78: float(training_max) raises ValueError on a text
\* that is no number; the unit is written out as it is
wendler531(kwargs) ==
    IF AllDigits(kwargs[training_max_].str) THEN "" ELSE "ValueError"

\* entry["fn"](conn, **kwargs) for a report: what it raises
CallReport(fn, c, kwargs) ==
    CASE fn = "volume_over_time" ->
           volume_over_time(c, kwargs[movement_].str, Spelled(kwargs[bin_].str),
                            Spelled(kwargs[unit_].str)).raised
      [] fn = "session_matrix" -> session_matrix(c, Spelled(kwargs[bin_].str)).raised
      [] fn = "estimated_1rm" ->
           estimated_1rm(c, kwargs[movement_].str, Spelled(kwargs[formula_].str),
                         Spelled(kwargs[unit_].str)).raised

\* the try of lines 213-218 and 248-256: ValueError is printed, any other
\* exception leaves the function
Tried(args, raised) ==
    IF args.raised # "" THEN "value_error"
    ELSE IF raised = "" THEN "ok"
    ELSE IF raised = "ValueError" THEN "value_error"
    ELSE raised

AnyRequired(ps) == \E k \in 1..Len(ps) : Required(ps[k])

\* run_report, lines 198-218, after get_all_reports gave all_reports
RunWith(all_reports, c, report_name, tokens) ==
    IF all_reports.raised # "" THEN all_reports.raised
    ELSE IF report_name \notin DOMAIN all_reports.value THEN "unknown_report"
    ELSE IF tokens = <<>> /\ AnyRequired(all_reports.value[report_name].params) THEN "usage"
    ELSE Tried(parse_report_args(all_reports.value[report_name].params, tokens),
               IF parse_report_args(all_reports.value[report_name].params, tokens).raised # ""
                 THEN ""
               ELSE CallReport(all_reports.value[report_name].fn, c,
                               parse_report_args(all_reports.value[report_name].params,
                                                 tokens).parsed))

run_report(c, plugins, report_name, tokens) ==
    RunWith(get_all_reports(REPORTS, plugins), c, report_name, tokens)

\* run_generator, lines 234-256
run_generator(c, generators, gen_name, tokens) ==
    IF gen_name \notin DOMAIN generators THEN "unknown_generator"
    ELSE IF tokens = <<>> /\ AnyRequired(generators[gen_name].params) THEN "usage"
    ELSE Tried(parse_report_args(generators[gen_name].params, tokens),
               IF parse_report_args(generators[gen_name].params, tokens).raised # "" THEN ""
               ELSE wendler531(parse_report_args(generators[gen_name].params, tokens).parsed))

\* what the loop of lines 291-367 does with an exception that reaches it
AfterCommand(result) ==
    IF result \in {"ok", "usage", "value_error", "unknown_report", "unknown_generator"}
      THEN "prompt"
    ELSE "crashed"

\* a flag and its value, as shlex.split gives them
FlagPairs ==
    { <<<<"-", "m">>, Squat>>,
      <<<<"-", "b">>, <<"d", "a", "i", "l", "y">>>>,
      <<<<"-", "b">>, <<"y", "e", "a", "r", "l", "y">>>>,
      <<<<"-", "u">>, <<"k", "g">>>>,
      <<<<"-", "u">>, <<"x", "y", "z">>>>,
      <<<<"-", "u">>, <<"m">>>>,
      <<<<"-", "f">>, <<"e", "p", "l", "e", "y">>>>,
      <<<<"-", "f">>, <<"l", "o", "m", "b", "a", "r", "d", "i">>>>,
      <<<<"-", "t">>, <<"3", "1", "5">>>>,
      <<<<"-", "t">>, <<"a", "b", "c">>>>,
      <<<<"-", "-", "b", "o", "g", "u", "s">>, Squat>> }

RECURSIVE Flatten(_)
Flatten(pairs) == IF pairs = <<>> THEN <<>> ELSE Head(pairs) \o Flatten(Tail(pairs))

\* the argument strings typed: flags with their values, then perhaps a flag
\* that lacks its value
CommandTokens ==
    LET whole == { Flatten(ps) : ps \in UNION { [1..n -> FlagPairs] : n \in 0..MaxFlags } }
    IN  whole \cup { Append(ts, <<"-", "u">>) : ts \in { t \in whole : Len(t) <= 2 } }

Typed(cmd, name, tokens, result) ==
    [cmd |-> cmd, name |-> name, tokens |-> tokens, result |-> result]

CommandFrame ==
    UNCHANGED <<diskFile, log, db, nextConn, pluginVars, argVars, parseVars, storeVars>>

\* `report NAME ARGS`, lines 320-327; a command changes nothing a command
\* reads, so the first command typed stands for every one
ReportCommand ==
    /\ sh_pc = "prompt"
    /\ lastCmd = NoCmd
    /\ \E report_name \in {"volume", "matrix", "e1rm", "nope"} : \E tokens \in CommandTokens :
          /\ lastCmd' = Typed("report", report_name, tokens,
                              run_report(conn, REPORT_PLUGINS, report_name, tokens))
          /\ sh_pc' = AfterCommand(run_report(conn, REPORT_PLUGINS, report_name, tokens))
    /\ preCmd' = Snapshot
    /\ CommandFrame

\* `generate NAME ARGS`, lines 329-336
GenerateCommand ==
    /\ sh_pc = "prompt"
    /\ lastCmd = NoCmd
    /\ \E gen_name \in {"wendler531", "nope"} : \E tokens \in CommandTokens :
          /\ lastCmd' = Typed("generate", gen_name, tokens,
                              run_generator(conn, GENERATOR_PLUGINS, gen_name, tokens))
          /\ sh_pc' = AfterCommand(run_generator(conn, GENERATOR_PLUGINS, gen_name, tokens))
    /\ preCmd' = Snapshot
    /\ CommandFrame

\* the Logs loaded: none, and one with max-effort sets
CommandLogs ==
    { <<>>,
      <<TrainingSession(NoneName, 5, "*",
            <<Movement(Squat, <<TrainingSet(2, Quantity(140, "pound"))>>, RmNote)>>)>> }

InitCommands ==
    /\ sh_pc = "prompt"
    /\ diskFile = [version |-> 0, ok |-> TRUE]
    /\ log = 0
    /\ db = [conn |-> 1, open |-> TRUE, of |-> 0]
    /\ nextConn = 1
    /\ lastCmd = NoCmd
    /\ preCmd = [log |-> 0, db |-> [conn |-> 1, open |-> TRUE, of |-> 0]]
    /\ REPORT_PLUGINS = DictSet(EmptyDict, "e1rm", E1rmDescriptor)
    /\ GENERATOR_PLUGINS = DictSet(EmptyDict, "wendler531", WendlerDescriptor)
    /\ present = {}
    /\ lastOp = "load"
    /\ lastDescs = <<>>
    /\ loads = <<>>
    /\ training_log \in CommandLogs
    /\ conn = create_db_rows(training_log)
    /\ store_pc = "store"
    /\ answer = <<>>
    /\ ArgsIdle /\ ParseIdle

NextCommands == ReportCommand \/ GenerateCommand

SpecCommands == InitCommands /\ [][NextCommands]_vars

\* ---- the commands that are in error ---------------------------------------------

\* the value the tokens give a short flag: the last one, or the default
RECURSIVE ValueOf(_, _, _)
ValueOf(tokens, flag, default) ==
    IF Len(tokens) < 2 THEN default
    ELSE IF tokens[Len(tokens) - 1] = flag THEN tokens[Len(tokens)]
    ELSE ValueOf(SubSeq(tokens, 1, Len(tokens) - 2), flag, default)

\* the flags a report or generator declares
FlagsOf(name) ==
    CASE name = "volume" -> {<<"-", "m">>, <<"-", "b">>, <<"-", "u">>}
      [] name = "matrix" -> {<<"-", "b">>}
      [] name = "e1rm" -> {<<"-", "m">>, <<"-", "f">>, <<"-", "u">>}
      [] name = "wendler531" -> {<<"-", "m">>, <<"-", "t">>, <<"-", "u">>}
      [] OTHER -> {}

\* the flag string is malformed: a flag not declared, a flag that lacks its
\* value, or a required flag that is missing
Malformed(name, tokens) ==
    \/ Len(tokens) % 2 = 1
    \/ \E i \in 1..Len(tokens) : i % 2 = 1 /\ tokens[i] \notin FlagsOf(name)
    \/ <<"-", "m">> \in FlagsOf(name)
         /\ ~\E i \in 1..Len(tokens) : i % 2 = 1 /\ tokens[i] = <<"-", "m">>
    \/ name = "wendler531"
         /\ ~\E i \in 1..Len(tokens) : i % 2 = 1 /\ tokens[i] = <<"-", "t">>

\* the command names an unknown report or generator, or passes a malformed
\* flag string, an unknown bucket, an unknown formula or an unknown unit
InError(typed) ==
    \/ typed.cmd = "report" /\ typed.name \notin {"volume", "matrix", "e1rm"}
    \/ typed.cmd = "generate" /\ typed.name # "wendler531"
    \/ Malformed(typed.name, typed.tokens)
    \/ /\ typed.name \in {"volume", "matrix"}
       /\ Spelled(ValueOf(typed.tokens, <<"-", "b">>, <<"w", "e", "e", "k", "l", "y">>)) \notin Bins
    \/ /\ typed.name = "e1rm"
       /\ Spelled(ValueOf(typed.tokens, <<"-", "f">>, <<"e", "p", "l", "e", "y">>)) \notin FORMULAS
    \/ /\ typed.name \in {"volume", "e1rm"}
       /\ Spelled(ValueOf(typed.tokens, <<"-", "u">>, <<"l", "b">>)) \notin KnownUnits

\* C26: a report or generate command that names an unknown report or
\* generator, or passes a malformed flag string, an unknown bucket, an unknown
\* formula or an unknown unit, prints an error and the shell is at its prompt
\* again; the Log, the store and the registries are what they were.
C26_BadCommandIsReported ==
    (lastCmd.cmd \in {"report", "generate"} /\ InError(lastCmd))
    => /\ sh_pc = "prompt"
       /\ lastCmd.result \in {"usage", "value_error", "unknown_report", "unknown_generator"}
       /\ log = preCmd.log /\ db = preCmd.db /\ db.open
       /\ conn = create_db_rows(training_log)
       /\ REPORT_PLUGINS = DictSet(EmptyDict, "e1rm", E1rmDescriptor)
       /\ GENERATOR_PLUGINS = DictSet(EmptyDict, "wendler531", WendlerDescriptor)

-----------------------------------------------------------------------------
(* cli.py: parse_file(file_path), the loop over the children of the root.  *)
(*                                                                         *)
(* The file is the sequence of the top-level nodes of its syntax tree.     *)
(* The outcome is the tuple of entries of the TrainingLog, or the          *)
(* exception that left process_node and with it parse_file.                *)

\* how many top-level nodes a file has
MaxChildren == 3

\* entry = process_node(child); if entry: entries.append(entry), lines 47-49
Append1(made, rest) ==
    IF made.raised # "" THEN [raised |-> made.raised, entries |-> <<>>]
    ELSE IF rest.raised # "" THEN rest
    ELSE IF made.value = NoSession THEN rest
    ELSE [raised |-> "", entries |-> <<made.value>> \o rest.entries]

\* for child in root_node.children, lines 45-50
RECURSIVE parse_file_entries(_)
parse_file_entries(children) ==
    IF children = <<>> THEN [raised |-> "", entries |-> <<>>]
    ELSE Append1(process_node(Head(children)), parse_file_entries(Tail(children)))

\* ---- the files -------------------------------------------------------------

\* single-line entries of every flag and detail, session blocks of at most
\* one line, a comment and a node the grammar could not read
FileNodes ==
    { n \in SinglelineNodes : n.date = 1 /\ n.items[1].item = <<"s", "q", ":">> }
    \cup { n \in BlockNodes : /\ n.date = 2 /\ n.flag # "W" /\ Len(n.items) <= 1
                              /\ \A i \in 1..Len(n.items) : n.items[i].item = <<"p", "u", ":">> }
    \cup { n \in OtherNodes : n.type \in {"comment", "ERROR"} }

Files == UNION { [1..n -> FileNodes] : n \in 0..MaxChildren }

ParseFile ==
    /\ parse_pc = "call"
    /\ parse_out' = parse_file_entries(parse_in)
    /\ parse_pc' = "done"
    /\ UNCHANGED <<parse_src, parse_in>>
    /\ ParseFrame

InitParseFile ==
    /\ parse_src \in Files
    /\ parse_in = parse_src
    /\ parse_pc = "call"
    /\ parse_out = <<>>
    /\ ShellIdle /\ PluginsIdle /\ ArgsIdle /\ StoreIdle

NextParseFile == ParseFile

SpecParseFile == InitParseFile /\ [][NextParseFile]_vars

\* the Sessions process_node produces for the nodes, in source order; a node
\* that produces none, or that raises, contributes nothing
RECURSIVE Produced(_)
Produced(children) ==
    IF children = <<>> THEN <<>>
    ELSE IF process_node(Head(children)).value.kind = "TrainingSession"
      THEN <<process_node(Head(children)).value>> \o Produced(Tail(children))
    ELSE Produced(Tail(children))

\* C27: parse_file raises nothing, and the sessions of the Log are the
\* Sessions process_node produces for the nodes that produce one, one per
\* node and in source order: a comment, an unread node, an entry with an
\* unsupported flag and an entry whose weight text does not parse change
\* nothing of what the other nodes produce.
C27_LoadRecoversLocally ==
    parse_pc = "done"
    => /\ parse_out.raised = ""
       /\ parse_out.entries = Produced(parse_src)

-----------------------------------------------------------------------------
(* plugins.py: _register_descriptors with a descriptor it skips between    *)
(* descriptors it registers.                                               *)

\* a descriptor with no type, no name, no fn, or a type that is neither
\* report nor generator
Skipped(desc) == ~Valid(desc, "report") /\ ~Valid(desc, "generator")

\* at most one descriptor that is registered
ValidLists == {<<>>} \cup { <<d>> : d \in { e \in Descriptors : ~Skipped(e) } }

\* a skipped descriptor, with or without a valid one before and after it
AroundLists ==
    { before \o <<bad>> \o after :
        before \in ValidLists, bad \in { e \in Descriptors : Skipped(e) },
        after \in ValidLists }

\* a call of _register_descriptors with such a list
RegisterAround ==
    /\ \E descriptors \in AroundLists :
          LET after == register_descriptors(Registries, descriptors) IN
          /\ REPORT_PLUGINS' = after.reports
          /\ GENERATOR_PLUGINS' = after.generators
          /\ lastDescs' = descriptors
    /\ lastOp' = "register"
    /\ UNCHANGED <<present, loads>>
    /\ PluginsFrame

NextAround == RegisterAround

SpecAround == InitRegister /\ [][NextAround]_vars

\* what a call that was given ds may and must do to registry t
OnlyValid(before, after, ds, t) ==
    /\ (\A i \in 1..Len(ds) : ~Valid(ds[i], t)) => after = before
    /\ \A n \in DOMAIN after :
          \/ n \in DOMAIN before /\ after[n] = before[n]
          \/ \E i \in 1..Len(ds) : Valid(ds[i], t) /\ ds[i].name = n /\ after[n] = ds[i]
    /\ \A i \in 1..Len(ds) :
          Valid(ds[i], t)
          => /\ ds[i].name \in DOMAIN after
             /\ \E j \in i..Len(ds) : Valid(ds[j], t) /\ after[ds[i].name] = ds[j]

\* C28: _register_descriptors skips a descriptor that has no type, no name,
\* no fn, or a type other than report and generator: it enters neither
\* registry, and the valid descriptors before and after it in the list are
\* registered; a list without a valid report descriptor leaves
\* REPORT_PLUGINS as it was, a list without a valid generator descriptor
\* leaves GENERATOR_PLUGINS as it was.
C28_SkippedChangesNeitherRegistry ==
    [][ lastOp' = "register" =>
          /\ OnlyValid(REPORT_PLUGINS, REPORT_PLUGINS', lastDescs', "report")
          /\ OnlyValid(GENERATOR_PLUGINS, GENERATOR_PLUGINS', lastDescs', "generator")
      ]_vars

\* a call with a report, a descriptor of type widget and a generator, in
\* this order, from empty registries
C28_Witness ==
    /\ lastOp = "register"
    /\ lastDescs = << Desc("report", "r1", "first"), Desc("widget", "dup", "first"),
                      Desc("generator", "dup", "first") >>
    /\ DOMAIN REPORT_PLUGINS = {"r1"}
    /\ DOMAIN GENERATOR_PLUGINS = {"dup"}

-----------------------------------------------------------------------------
(* cli.py: the Log and the store of the shell, command after command.      *)

\* C29: whenever the shell is at its prompt, the store is open and is the
\* projection of the current Log, so that stats and history read the load
\* that query, report and tables read; and a command other than reload has
\* left the Log and the store as they were.
C29_LogAndStoreFromSameLoad ==
    sh_pc = "prompt"
    => /\ db.open
       /\ db.of = log
       /\ lastCmd.cmd \in {"stats", "history", "query", "tables", "report"}
            => (log = preCmd.log /\ db = preCmd.db)

-----------------------------------------------------------------------------
(* parse.py and db.py: one movement line from its text to the rows of the  *)
(* training view.                                                          *)

\* the weight field of a line: none, bodyweight, a parsed weight
LineWeights ==
    { Absent,
      [kind |-> "written", tokens |-> << <<"B", "W">> >>, seps |-> <<>>],
      [kind |-> "written", tokens |-> << <<"2", "4", "k", "g">> >>, seps |-> <<>>] }

LineSources ==
    [weight : LineWeights, reps : RepSources, note : NoteTexts \cup {<<>>}]

\* the single-line entry `DATE FLAG pu: DETAILS`
LineNode(flag, src) ==
    Node("singleline_entry", flag, 1, "",
         << [item |-> <<"p", "u", ":">>, details |-> DetailsOf(src)] >>)

\* parse_file on the one entry: process_node(child)
ProcessLine ==
    /\ parse_pc = "call"
    /\ parse_out' = process_node(parse_in)
    /\ parse_pc' = "parsed"
    /\ UNCHANGED <<parse_src, parse_in>>
    /\ ParseFrame

\* create_db of the Log of that entry, then SELECT * FROM training
ViewLine ==
    /\ parse_pc = "parsed"
    /\ parse_out.raised = ""
    /\ parse_out.value.kind = "TrainingSession"
    /\ parse_out' = [raised |-> "", value |-> parse_out.value,
                     rows |-> TrainingView(create_db_rows(<<parse_out.value>>))]
    /\ parse_pc' = "viewed"
    /\ UNCHANGED <<parse_src, parse_in>>
    /\ ParseFrame

InitLine ==
    /\ parse_src \in LineSources
    /\ \E flag \in {"*", "!"} : parse_in = LineNode(flag, parse_src)
    /\ parse_pc = "call"
    /\ parse_out = <<>>
    /\ ShellIdle /\ PluginsIdle /\ ArgsIdle /\ StoreIdle

NextLine == ProcessLine \/ ViewLine

SpecLine == InitLine /\ [][NextLine]_vars

\* C30: a movement line with a rep scheme and no weight field yields a
\* Movement with no sets and no row of the training view; the same line with
\* the weight BW yields one set per rep position, with that position's reps
\* and no weight, and one row per set with weight_magnitude and weight_unit
\* null.
C30_NoWeightNoSets ==
    (/\ parse_pc = "viewed"
     /\ parse_src.reps # Absent
     /\ parse_src.reps.kind \in {"compact", "expanded"})
    => LET positions == Positions(parse_src.reps)
           sets      == parse_out.value.movements[1].sets
       IN  /\ Len(parse_out.value.movements) = 1
           /\ parse_src.weight = Absent
                => (sets = <<>> /\ parse_out.rows = {})
           /\ (parse_src.weight # Absent /\ parse_src.weight.tokens = << <<"B", "W">> >>)
                => /\ sets = [i \in 1..Len(positions) |-> TrainingSet(positions[i], NoneQ)]
                   /\ Cardinality(parse_out.rows) = Len(positions)
                   /\ \A i \in 1..Len(positions) :
                         \E row \in parse_out.rows :
                             /\ row.set_id = i
                             /\ row.reps = positions[i]
                             /\ row.weight_magnitude = SqlNull
                             /\ row.weight_unit = SqlNull

\* the line `pu: 3x5`: three rep positions, no set, no row
C30_Witness ==
    /\ parse_pc = "viewed"
    /\ parse_src.weight = Absent
    /\ parse_src.reps = [kind |-> "compact", n |-> 3, r |-> 5]
    /\ parse_out.value.movements[1].name = <<"p", "u">>
    /\ parse_out.value.movements[1].sets = <<>>
    /\ parse_out.rows = {}

=============================================================================
